---- MODULE Spec2Model ----
(***************************************************************************)
(* Write-through synchronisation with fallback queue of the Easy Money     *)
(* Tracker services: the movement service (cache, queue, replay), the      *)
(* account service (balance history) and the row store they write to.      *)
(***************************************************************************)
EXTENDS Integers, Sequences, FiniteSets, TLC

VARIABLES
  state,        \* movementService.ts: the module-level MovementServiceState
  sheet,        \* the remote Movements sheet: header row, then data rows
  passes,       \* the processQueue calls in flight, one record per call slot
  now,          \* Date.now()
  nextId,       \* number of UUIDs handed out by generateId so far
  acct,         \* account service: the module-level AccountServiceState
  accountsSheet,\* the remote Accounts sheet: header row, then data rows
  assetsSheet,  \* the remote Assets sheet: header row, then data rows
  today,        \* index of the current calendar day (getTodayISO)
  authState,    \* googleAuth.js: the module-level authState
  loading,      \* the loadMovements / loadAccounts calls awaiting their read
  rateLimiterState, \* sheetsClient: the module-level rateLimiterState
  callers,      \* the client operations in flight, one record per caller slot
  retry,        \* retry utilities: the withRetry call in flight
  backoff,      \* retry utilities: the exponentialBackoff call last evaluated
  inflight,     \* movementService.ts: the updateMovement calls awaiting the store
  categoriesSheet, \* the remote Categories sheet: header row, then data rows
  calls,        \* number of service calls made so far
  last          \* the service call last made: what it returned or raised

vars ==
  <<state, sheet, passes, now, nextId, acct, accountsSheet, assetsSheet, today, authState,
    loading, rateLimiterState, callers, retry, backoff, inflight, categoriesSheet, calls, last>>

(***************************************************************************)
(* Bounds of the model.                                                    *)
(***************************************************************************)
MaxCalls == 4     \* service calls made in one run
MaxDay == 2       \* calendar days a run spans
MaxTicks == 4     \* 20-second ticks a run of the store client spans
MaxRetries == 3   \* largest maxRetries option given to withRetry
MaxRetryCount == 7 \* largest retryCount given to exponentialBackoff
RandomScale == 8  \* Math.random() returns k / RandomScale, 0 <= k < RandomScale

(***************************************************************************)
(* Cells and rows (models.ts SheetRow): a cell is a string or a number.    *)
(***************************************************************************)
S(x) == <<"s", x>>
N(x) == <<"n", x>>

\* row[k] ?? '' followed by String(...): an absent cell reads as ''
CellString(row, k) ==
  IF k > Len(row) THEN ""
  ELSE IF row[k][1] = "s" THEN row[k][2] ELSE ToString(row[k][2])

\* String(row[k]) || dflt: an absent cell prints as 'undefined', '' falls back
CellStringOr(row, k, dflt) ==
  IF k > Len(row) THEN "undefined"
  ELSE IF row[k][1] = "n" THEN ToString(row[k][2])
  ELSE IF row[k][2] = "" THEN dflt ELSE row[k][2]

\* Number(row[k]) || 0: absent, empty and non-numeric cells read as 0
CellNumber(row, k) ==
  IF k > Len(row) THEN 0
  ELSE IF row[k][1] = "n" THEN row[k][2] ELSE 0

\* String(row[k] ?? dflt): only an absent cell reads as dflt
CellStringDefault(row, k, dflt) ==
  IF k > Len(row) THEN dflt
  ELSE IF row[k][1] = "s" THEN row[k][2] ELSE ToString(row[k][2])

\* new Array(columnCount).fill('')
EmptyRow(columnCount) == [k \in 1..columnCount |-> S("")]

(***************************************************************************)
(* Dates, identifiers, categories.                                         *)
(***************************************************************************)
Days == <<"2024-01-01", "2024-01-02", "2024-01-03", "2024-01-04">>
BadDate == "01/01/2024"

isValidISODate(dateString) == \E k \in 1..Len(Days) : Days[k] = dateString

\* generateId(): the n-th UUID
Uuid(n) == "uuid-" \o ToString(n)

\* `temp-${Date.now()}`
TempId(t) == "temp-" \o ToString(t)

IsTempId(id) == \E t \in 0..(MaxCalls + 1) : id = TempId(t)

GhostId == "uuid-ghost"   \* an id no cache and no sheet holds

\* a color is the sequence of its characters
Black == <<"#", "0", "0", "0", "0", "0", "0">>

Cat(id, typeFixed) ==
  [id |-> id, name |-> id, color |-> Black, typeFixed |-> typeFixed]

\* the remote Categories sheet below its header
RemoteCategories ==
  << Cat("cat-inc", "income"), Cat("cat-exp", "expense"), Cat("cat-both", "both") >>

(***************************************************************************)
(* Movements and their adapter.                                            *)
(***************************************************************************)
Mov(id, dateISO, amount, categoryId, type) ==
  [id |-> id, dateISO |-> dateISO, amount |-> amount, categoryId |-> categoryId,
   description |-> "", type |-> type]

NoMovement == Mov("", "", 0, "", "")

\* models.ts createMovement: { id: generateId(), ...data }
WithId(id, data) == [data EXCEPT !.id = id]

validateMovement(m) ==
  (IF m.id = "" THEN {"Movement ID is required"} ELSE {})
  \cup (IF ~isValidISODate(m.dateISO) THEN {"Invalid date format"} ELSE {})
  \cup (IF m.amount < 0 THEN {"Amount must be a non-negative number"} ELSE {})
  \cup (IF m.categoryId = "" THEN {"Category ID is required"} ELSE {})
  \cup (IF m.type \notin {"income", "expense"} THEN {"Type must be income or expense"} ELSE {})

\* description and categoryId in each other's column
MovementsToRow_swapped(item) ==
  << S(item.id), S(item.dateISO), N(item.amount), S(item.description),
     S(item.categoryId), S(item.type) >>

MovementsToRow(item) ==
  << S(item.id), S(item.dateISO), N(item.amount), S(item.categoryId),
     S(item.description), S(item.type) >>

MovementsFromRow(row) ==
  [id |-> CellString(row, 1),
   dateISO |-> CellString(row, 2),
   amount |-> CellNumber(row, 3),
   categoryId |-> CellString(row, 4),
   description |-> CellString(row, 5),
   type |-> CellStringOr(row, 6, "expense")]

MovementsHeader ==
  << S("id"), S("dateISO"), S("amount"), S("categoryId"), S("description"), S("type") >>

(***************************************************************************)
(* The row store client.  Every operator takes the sheet and the outcome   *)
(* the remote gives ("ok", "fail_read": the read call fails, "fail_write": *)
(* the write call fails) and returns the sheet afterwards, whether the     *)
(* call raised, and the number of network requests issued.  A failing call *)
(* is one the remote answers with HTTP 429; "http_401" is the remote       *)
(* answering the first request with HTTP 401, and "no_token" is what every *)
(* outcome becomes while isAuthenticated() is false.                       *)
(***************************************************************************)
Outcomes == {"ok", "fail_read", "fail_write"}

Res(sh, threw, net, verr) ==
  [sheet |-> sh, threw |-> threw, net |-> net, verr |-> verr,
   code |-> IF ~threw THEN "" ELSE IF verr THEN "VALIDATION" ELSE "RATE_LIMITED"]

\* throw new SheetsApiError('Not authenticated', 401, 'NOT_AUTHENTICATED')
NotAuthenticated(sh) == [Res(sh, TRUE, 0, FALSE) EXCEPT !.code = "NOT_AUTHENTICATED"]

\* throw new SheetsApiError('Authentication revoked', 401, 'AUTH_REVOKED')
AuthRevoked(sh) == [Res(sh, TRUE, 1, FALSE) EXCEPT !.code = "AUTH_REVOKED"]

\* googleAuth.js
SignedIn == [accessToken |-> "token", expiresAt |-> 0]

clearAuthState == [accessToken |-> "", expiresAt |-> 0]

getAccessToken == authState.accessToken

isAuthenticated ==
  authState.accessToken # "" /\ (authState.expiresAt = 0 \/ now < authState.expiresAt)

\* the outcome a client call meets: without a session it fails before the network
Seen(out) == IF isAuthenticated THEN out ELSE "no_token"

\* authenticatedFetch calls clearAuthState() on a 401 answer
AuthAfter(r) == IF r.code = "AUTH_REVOKED" THEN clearAuthState ELSE authState

readSheet(sh, out) ==
  IF out = "ok" THEN Res(sh, FALSE, 1, FALSE)
  ELSE IF out = "no_token" THEN NotAuthenticated(sh)
  ELSE IF out = "http_401" THEN AuthRevoked(sh)
  ELSE Res(sh, TRUE, 1, FALSE)

\* findById: first row below the header whose id cell equals id; 0 when none.
\* The position is the index into rows counted from 1 (the A1 row number).
findById(sh, id) ==
  LET hits == {i \in 2..Len(sh) : Len(sh[i]) >= 1 /\ sh[i][1] = S(id)}
  IN IF hits = {} THEN 0 ELSE CHOOSE i \in hits : \A j \in hits : i <= j

appendRows(sh, row, out) ==
  IF out = "ok" THEN Res(Append(sh, row), FALSE, 1, FALSE)
  ELSE IF out = "no_token" THEN NotAuthenticated(sh)
  ELSE IF out = "http_401" THEN AuthRevoked(sh)
  ELSE Res(sh, TRUE, 1, FALSE)

\* the lookup left out: every call appends
upsertById_alwaysAppends(sh, id, row, out) ==
  IF out \in {"no_token", "http_401", "fail_read"} THEN readSheet(sh, out)
  ELSE IF out = "fail_write" THEN Res(sh, TRUE, 2, FALSE)
  ELSE Res(Append(sh, row), FALSE, 2, FALSE)

upsertById(sh, id, row, out) ==
  IF out \in {"no_token", "http_401", "fail_read"} THEN readSheet(sh, out)
  ELSE IF out = "fail_write" THEN Res(sh, TRUE, 2, FALSE)
  ELSE LET pos == findById(sh, id)
       IN IF pos # 0 THEN Res([sh EXCEPT ![pos] = row], FALSE, 2, FALSE)
          ELSE Res(Append(sh, row), FALSE, 2, FALSE)

deleteById(sh, id, columnCount, out) ==
  IF out \in {"no_token", "http_401", "fail_read"} THEN readSheet(sh, out)
  ELSE LET pos == findById(sh, id)
       IN IF pos = 0 THEN Res(sh, FALSE, 1, FALSE)
          ELSE IF out = "fail_write" THEN Res(sh, TRUE, 2, FALSE)
          ELSE Res([sh EXCEPT ![pos] = EmptyRow(columnCount)], FALSE, 2, FALSE)

\* MovementsAdapter.create/update/upsert/delete: validate, then write
ValidationFailed(sh) == Res(sh, TRUE, 0, TRUE)

MovementsAdapter_create(sh, item, out) ==
  IF validateMovement(item) # {} THEN ValidationFailed(sh)
  ELSE appendRows(sh, MovementsToRow(item), out)

MovementsAdapter_update(sh, item, out) ==
  IF validateMovement(item) # {} THEN ValidationFailed(sh)
  ELSE upsertById(sh, item.id, MovementsToRow(item), out)

MovementsAdapter_upsert(sh, item, out) ==
  IF validateMovement(item) # {} THEN ValidationFailed(sh)
  ELSE upsertById(sh, item.id, MovementsToRow(item), out)

MovementsAdapter_delete(sh, id, out) == deleteById(sh, id, 6, out)

\* MovementsAdapter.getAll: rows.slice(1).map(fromRow)
MovementsAdapter_getAll(sh) ==
  [k \in 1..(Len(sh) - 1) |-> MovementsFromRow(sh[k + 1])]

(***************************************************************************)
(* Categories and aggregates (ChartsBase) and their adapters.              *)
(***************************************************************************)
HexDigits ==
  {"0", "1", "2", "3", "4", "5", "6", "7", "8", "9",
   "A", "B", "C", "D", "E", "F", "a", "b", "c", "d", "e", "f"}

\* /^#[0-9A-Fa-f]{6}$/.test(color)
isValidHexColor(color) ==
  /\ Len(color) = 7
  /\ color[1] = "#"
  /\ \A k \in 2..7 : color[k] \in HexDigits

\* str.trim().length === 0, over the names used
isBlank(str) == str \in {"", " "}

validateCategory(category) ==
  (IF category.id = "" THEN {"Category ID is required"} ELSE {})
  \cup (IF isBlank(category.name) THEN {"Category name is required"} ELSE {})
  \cup (IF ~isValidHexColor(category.color) THEN {"Invalid color format"} ELSE {})
  \cup (IF category.typeFixed \notin {"income", "expense", "both"}
          THEN {"Type fixed must be income, expense or both"} ELSE {})

CategoriesToRow(item) == << S(item.id), S(item.name), S(item.color), S(item.typeFixed) >>

CategoriesFromRow(row) ==
  [id |-> CellString(row, 1),
   name |-> CellString(row, 2),
   color |-> CellStringDefault(row, 3, Black),
   typeFixed |-> CellStringOr(row, 4, "both")]

CategoriesHeader == << S("id"), S("name"), S("color"), S("typeFixed") >>

InitialCategoriesSheet ==
  <<CategoriesHeader>> \o
  [k \in 1..Len(RemoteCategories) |-> CategoriesToRow(RemoteCategories[k])]

CategoriesAdapter_create(sh, item, out) ==
  IF validateCategory(item) # {} THEN ValidationFailed(sh)
  ELSE appendRows(sh, CategoriesToRow(item), out)

CategoriesAdapter_update(sh, item, out) ==
  IF validateCategory(item) # {} THEN ValidationFailed(sh)
  ELSE upsertById(sh, item.id, CategoriesToRow(item), out)

CategoriesAdapter_upsert(sh, item, out) ==
  IF validateCategory(item) # {} THEN ValidationFailed(sh)
  ELSE upsertById(sh, item.id, CategoriesToRow(item), out)

ChartsBaseToRow(item) ==
  << S(item.id), S(item.period), S(item.startDateISO), S(item.endDateISO),
     N(item.totalIncome), N(item.totalExpense), N(item.netBalance),
     S(item.categoryBreakdown) >>

ChartsBaseFromRow(row) ==
  [id |-> CellString(row, 1),
   period |-> CellStringOr(row, 2, "monthly"),
   startDateISO |-> CellString(row, 3),
   endDateISO |-> CellString(row, 4),
   totalIncome |-> CellNumber(row, 5),
   totalExpense |-> CellNumber(row, 6),
   netBalance |-> CellNumber(row, 7),
   categoryBreakdown |-> CellStringDefault(row, 8, "{}")]

(***************************************************************************)
(* movementService.ts.                                                     *)
(***************************************************************************)
InitialMovementState ==
  [categories |-> <<>>, movements |-> <<>>, queue |-> <<>>, isOnline |-> TRUE,
   lastSyncTime |-> -1, isLoading |-> FALSE, error |-> ""]

\* the record of a call
\* (io: whether it issued a network request; wt: its write-through attempt failed)
Call(op, threw, verr, wt, net, ret) ==
  [op |-> op, threw |-> threw, verr |-> verr, wt |-> wt, io |-> net > 0, ret |-> ret,
   net |-> net, code |-> "", status |-> 0,
   success |-> 0, failed |-> 0, log |-> <<>>, initial |-> <<>>,
   hist |-> "none", acc |-> [id |-> "", name |-> "", emoji |-> "", balance |-> 0]]

NoCall == Call("none", FALSE, FALSE, FALSE, 0, NoMovement)

\* the record of a call whose store call gave r
CallOf(op, threw, wt, r, ret) ==
  [Call(op, threw, r.verr, wt, r.net, ret) EXCEPT !.code = r.code]

\* a QueuedOperation; its id and timestamp are written and never read
QueuedOperation(type, movement, t) == [type |-> type, movement |-> movement]

\* addToQueue with the push left out
addToQueue_lost(st, type, movement, t) == st

addToQueue(st, type, movement, t) ==
  [st EXCEPT !.queue = Append(@, QueuedOperation(type, movement, t))]

deriveTypeFromCategory(st, categoryId) ==
  LET found == {k \in 1..Len(st.categories) : st.categories[k].id = categoryId}
  IN IF found = {} THEN "expense"
     ELSE LET category == st.categories[CHOOSE k \in found : \A j \in found : k <= j]
          IN IF category.typeFixed = "income" THEN "income"
             ELSE IF category.typeFixed = "expense" THEN "expense"
             ELSE "expense"

\* createMovement: type: data.type || deriveTypeFromCategory(data.categoryId)
createMovementData(st, data) ==
  [data EXCEPT !.type = IF data.type # "" THEN data.type
                        ELSE deriveTypeFromCategory(st, data.categoryId)]

\* updateMovement: type: deriveTypeFromCategory(movement.categoryId)
updateMovementData(st, movement) ==
  [movement EXCEPT !.type = deriveTypeFromCategory(st, movement.categoryId)]

\* state.movements.map((m) => m.id === u.id ? u : m)
replaceById(movs, u) == [k \in 1..Len(movs) |-> IF movs[k].id = u.id THEN u ELSE movs[k]]

\* state.movements.filter((m) => m.id !== id)
removeById(movs, id) == SelectSeq(movs, LAMBDA m : m.id # id)

\* .filter((m) => m.id): drop the rows whose id cell is empty
nonEmptyIds(items) == SelectSeq(items, LAMBDA m : m.id # "")

createMovement_success(st, movement) ==
  [st EXCEPT !.movements = <<movement>> \o @, !.isOnline = TRUE]

createMovement_fallback(st, movementData, t) ==
  LET tempMovement == WithId(TempId(t), movementData)
  IN [addToQueue([st EXCEPT !.isOnline = FALSE], "create", tempMovement, t)
        EXCEPT !.movements = <<tempMovement>> \o @]

\* the cache left as it was
updateMovement_success_keepsCache(st, updatedMovement) == [st EXCEPT !.isOnline = TRUE]

updateMovement_success(st, updatedMovement) ==
  [st EXCEPT !.movements = replaceById(@, updatedMovement), !.isOnline = TRUE]

updateMovement_fallback(st, updatedMovement, t) ==
  [addToQueue([st EXCEPT !.isOnline = FALSE], "update", updatedMovement, t)
     EXCEPT !.movements = replaceById(@, updatedMovement)]

deleteMovement_success(st, id) ==
  [st EXCEPT !.movements = removeById(@, id), !.isOnline = TRUE]

deleteMovement_fallback(st, movementToDelete, t) ==
  [addToQueue([st EXCEPT !.isOnline = FALSE], "delete", movementToDelete, t)
     EXCEPT !.movements = removeById(@, movementToDelete.id)]

\* a call is made: the run may make MaxCalls of them
Called ==
  /\ calls < MaxCalls
  /\ calls' = calls + 1

\* Date.now() read by a call: the clock value last read, or a later one
ClockReads == {now, now + 1}

\* the slots for updateMovement calls in flight
UpdateSlots == {1, 2}

IdleUpdate == [pc |-> "idle", updatedMovement |-> NoMovement, found |-> 0, overlap |-> FALSE]

\* the slots for processQueue calls in flight
PassSlots == {1, 2}

AllIdle == \A p \in PassSlots : passes[p].pc = "idle"

\* The requests of the service calls pass the rate limiter, which only delays
\* them; its timestamps are followed where the client is called directly.
AcctUnchanged ==
  UNCHANGED <<acct, accountsSheet, assetsSheet, today, loading, rateLimiterState, callers, retry, backoff, inflight, categoriesSheet>>

(***************************************************************************)
(* Inputs of the movement calls.                                           *)
(***************************************************************************)
CreateInputs ==
  { Mov("", Days[1], 10, "cat-inc", ""),          \* no type supplied
    Mov("", Days[1], 10, "cat-inc", "expense"),   \* a type against the category
    Mov("", BadDate, 10, "cat-both", "") }

UpdateInputs ==
  { Mov("", Days[1], 20, "cat-inc", "expense"),
    Mov("", Days[1], -1, "cat-both", "income") }

CachedIds == {state.movements[k].id : k \in 1..Len(state.movements)}

(***************************************************************************)
(* The movement calls, each from its entry to its return.                  *)
(***************************************************************************)
LoadCategories(out) ==
  /\ LET r == readSheet(sheet, Seen(out))
     IN /\ IF ~r.threw
             THEN state' = [state EXCEPT !.categories = nonEmptyIds(RemoteCategories)]
             ELSE state' = [state EXCEPT !.error = "Failed to load categories"]
        /\ last' = CallOf("loadCategories", r.threw, FALSE, r, NoMovement)
        /\ authState' = AuthAfter(r)
  /\ Called
  /\ UNCHANGED <<sheet, passes, now, nextId>>
  /\ AcctUnchanged

\* loadMovements up to its await: isLoading = true, error = null
loadMovements_entry(st) == [st EXCEPT !.isLoading = TRUE, !.error = ""]

\* loadMovements after a successful read, finally block included
loadMovements_success(st, movements, t) ==
  [st EXCEPT !.movements = nonEmptyIds(movements), !.lastSyncTime = t,
             !.isOnline = TRUE, !.isLoading = FALSE]

loadMovements_failed_keepsLoading(st) ==
  [st EXCEPT !.isOnline = FALSE, !.error = "Failed to load movements"]

\* loadMovements after a failed read: the catch block, then the finally block
loadMovements_failed(st) ==
  [st EXCEPT !.isOnline = FALSE, !.error = "Failed to load movements", !.isLoading = FALSE]

\* loadMovements with nothing running between its entry and its return
LoadMovements(out) ==
  /\ Called
  /\ LET r == readSheet(sheet, Seen(out))
     IN /\ IF ~r.threw
             THEN state' = loadMovements_success(loadMovements_entry(state),
                                                 MovementsAdapter_getAll(sheet), now)
             ELSE state' = loadMovements_failed(loadMovements_entry(state))
        /\ last' = CallOf("loadMovements", r.threw, FALSE, r, NoMovement)
        /\ authState' = AuthAfter(r)
  /\ UNCHANGED <<sheet, passes, now, nextId>>
  /\ AcctUnchanged

\* loadMovements in two steps: up to the awaited read, and from its answer on
LoadMovementsBegin ==
  /\ ~loading.movements
  /\ calls < MaxCalls
  /\ loading' = [loading EXCEPT !.movements = TRUE]
  /\ state' = loadMovements_entry(state)
  /\ UNCHANGED <<sheet, passes, now, nextId, authState, calls, last>>
  /\ UNCHANGED <<acct, accountsSheet, assetsSheet, today, rateLimiterState, callers, retry, backoff, inflight, categoriesSheet>>

LoadMovementsEnd(out) ==
  /\ loading.movements
  /\ Called
  /\ loading' = [loading EXCEPT !.movements = FALSE]
  /\ LET r == readSheet(sheet, Seen(out))
     IN /\ IF ~r.threw
             THEN state' = loadMovements_success(state, MovementsAdapter_getAll(sheet), now)
             ELSE state' = loadMovements_failed(state)
        /\ last' = CallOf("loadMovements", r.threw, FALSE, r, NoMovement)
        /\ authState' = AuthAfter(r)
  /\ UNCHANGED <<sheet, passes, now, nextId>>
  /\ UNCHANGED <<acct, accountsSheet, assetsSheet, today, rateLimiterState, callers, retry, backoff, inflight, categoriesSheet>>

CreateMovement(data, out, t) ==
  LET movementData == createMovementData(state, data)
      item == WithId(Uuid(nextId + 1), movementData)
      r == MovementsAdapter_create(sheet, item, Seen(out))
  IN /\ authState' = AuthAfter(r)
     /\ IF ~r.threw
          THEN /\ state' = createMovement_success(state, item)
               /\ nextId' = nextId + 1
               /\ last' = CallOf("createMovement", FALSE, FALSE, r, item)
          ELSE /\ state' = createMovement_fallback(state, movementData, t)
               /\ nextId' = nextId
               /\ last' = CallOf("createMovement", FALSE, TRUE, r, state'.movements[1])
     /\ sheet' = r.sheet
     /\ now' = (IF r.threw THEN t ELSE now)
     /\ Called
     /\ UNCHANGED passes
     /\ AcctUnchanged

UpdateMovement(movement, out) ==
  LET updatedMovement == updateMovementData(state, movement)
      r == MovementsAdapter_update(sheet, updatedMovement, Seen(out))
  IN /\ authState' = AuthAfter(r)
     /\ IF ~r.threw
          THEN /\ state' = updateMovement_success(state, updatedMovement)
               /\ last' = CallOf("updateMovement", FALSE, FALSE, r, updatedMovement)
          ELSE /\ state' = updateMovement_fallback(state, updatedMovement, now)
               /\ last' = CallOf("updateMovement", FALSE, TRUE, r, updatedMovement)
     /\ sheet' = r.sheet
     /\ Called
     /\ UNCHANGED <<passes, now, nextId>>
     /\ AcctUnchanged

DeleteMovement(id, out) ==
  LET found == {k \in 1..Len(state.movements) : state.movements[k].id = id}
  IN /\ IF found = {}
          THEN /\ state' = state
               /\ sheet' = sheet
               /\ authState' = authState
               /\ last' = Call("deleteMovement", FALSE, FALSE, FALSE, 0, NoMovement)
          ELSE LET movementToDelete ==
                     state.movements[CHOOSE k \in found : \A j \in found : k <= j]
                   r == MovementsAdapter_delete(sheet, id, Seen(out))
               IN /\ authState' = AuthAfter(r)
                  /\ IF ~r.threw
                       THEN /\ state' = deleteMovement_success(state, id)
                            /\ last' = CallOf("deleteMovement", FALSE, FALSE, r,
                                              movementToDelete)
                       ELSE /\ state' = deleteMovement_fallback(state, movementToDelete, now)
                            /\ last' = CallOf("deleteMovement", FALSE, TRUE, r,
                                              movementToDelete)
                  /\ sheet' = r.sheet
     /\ Called
     /\ UNCHANGED <<passes, now, nextId>>
     /\ AcctUnchanged

(***************************************************************************)
(* processQueue.  A call in flight holds its loop position i, its counters *)
(* and remainingQueue.  The for-of loop walks the array object that was    *)
(* state.queue when the loop began: while that object still is state.queue *)
(* (live) the loop sees what addToQueue pushes; once state.queue has been  *)
(* assigned another array, the loop goes on over the old one (arr).        *)
(***************************************************************************)
IdlePass ==
  [pc |-> "idle", live |-> FALSE, arr |-> <<>>, i |-> 0, success |-> 0, failed |-> 0,
   remainingQueue |-> <<>>, log |-> <<>>, initial |-> <<>>, found |-> 0]

Iterated(pass) == IF pass.live THEN state.queue ELSE pass.arr

\* state.queue is assigned a new array: the loops in flight keep the old one
Detach(ps, skip) ==
  [q \in PassSlots |->
     IF q # skip /\ ps[q].pc # "idle" /\ ps[q].live
       THEN [ps[q] EXCEPT !.live = FALSE, !.arr = state.queue]
       ELSE ps[q]]

\* the adapter method a queued operation is replayed with
ReplayMethod(type) ==
  IF type = "create" THEN "upsert" ELSE IF type = "update" THEN "update" ELSE "delete"

Replay(sh, op, out) ==
  IF ReplayMethod(op.type) = "upsert" THEN MovementsAdapter_upsert(sh, op.movement, out)
  ELSE IF ReplayMethod(op.type) = "update" THEN MovementsAdapter_update(sh, op.movement, out)
  ELSE MovementsAdapter_delete(sh, op.movement.id, out)

\* the loop body pushing to remainingQueue whatever the attempt gave
Attempted_keepsAll(pass, op, r) ==
  [pass EXCEPT
     !.success = IF r.threw THEN @ ELSE @ + 1,
     !.failed = IF r.threw THEN @ + 1 ELSE @,
     !.remainingQueue = Append(@, op),
     !.log = Append(@, [op |-> op, method |-> ReplayMethod(op.type),
                        threw |-> r.threw, verr |-> r.verr, io |-> r.net > 0]),
     !.i = @ + 1]

\* one turn of the loop body: success++ or failed++ and push to remainingQueue
Attempted(pass, op, r) ==
  [pass EXCEPT
     !.success = IF r.threw THEN @ ELSE @ + 1,
     !.failed = IF r.threw THEN @ + 1 ELSE @,
     !.remainingQueue = IF r.threw THEN Append(@, op) ELSE @,
     !.log = Append(@, [op |-> op, method |-> ReplayMethod(op.type),
                        threw |-> r.threw, verr |-> r.verr, io |-> r.net > 0]),
     !.i = @ + 1]

\* { success, failed }, with the attempts made and the queue the loop began on
ProcessQueueResult(pass) ==
  [Call("processQueue", FALSE, FALSE, FALSE, 0, NoMovement) EXCEPT
     !.success = pass.success, !.failed = pass.failed,
     !.io = \E k \in 1..Len(pass.log) : pass.log[k].io,
     !.log = pass.log, !.initial = pass.initial]

\* entry: an empty queue returns { success: 0, failed: 0 } at once
ProcessQueueBegin(p) ==
  /\ passes[p].pc = "idle"
  /\ Called
  /\ IF Len(state.queue) = 0
       THEN /\ last' = ProcessQueueResult(IdlePass)
            /\ passes' = passes
       ELSE /\ passes' = [passes EXCEPT ![p] =
                            [IdlePass EXCEPT !.pc = "run", !.live = TRUE, !.i = 1,
                                             !.initial = state.queue]]
            /\ last' = Call("processQueue:started", FALSE, FALSE, FALSE, 0, NoMovement)
  /\ UNCHANGED <<state, sheet, now, nextId, authState>>
  /\ AcctUnchanged

\* the awaited adapter call of the current operation completes; the loop then
\* either starts the next operation or assigns state.queue and returns
ProcessQueueStep(p, out) ==
  /\ passes[p].pc = "run"
  /\ LET pass == passes[p]
         op == Iterated(pass)[pass.i]
         r == Replay(sheet, op, Seen(out))
         after == Attempted(pass, op, r)
     IN /\ sheet' = r.sheet
        /\ authState' = AuthAfter(r)
        /\ IF after.i <= Len(Iterated(pass))
             THEN /\ passes' = [passes EXCEPT ![p] = after]
                  /\ UNCHANGED <<state, last>>
             ELSE /\ state' = [state EXCEPT !.queue = after.remainingQueue]
                  /\ passes' = [Detach(passes, p) EXCEPT ![p] = IdlePass]
                  /\ last' = ProcessQueueResult(after)
  /\ UNCHANGED <<now, nextId, calls>>
  /\ AcctUnchanged

ClearMovementState ==
  /\ Called
  /\ state' = InitialMovementState
  /\ passes' = Detach(passes, 0)
  /\ last' = Call("clearMovementState", FALSE, FALSE, FALSE, 0, NoMovement)
  /\ UNCHANGED <<sheet, now, nextId, authState>>
  /\ AcctUnchanged

(***************************************************************************)
(* The calls request by request.  upsertById and deleteById await          *)
(* findById (a read of the sheet) and then await writeRows or appendRows:  *)
(* other calls run between the two, and the write uses the position the    *)
(* read gave.  A processQueue call and an updateMovement call in flight    *)
(* are at "run" / "find" while the read is awaited and at "write" while    *)
(* the write is.                                                           *)
(***************************************************************************)
\* the write of upsertById (writeRows at the row found, appendRows when none
\* was) and of deleteById (an empty row at the row found)
writeFound(sh, method, found, row) ==
  IF method = "delete" THEN [sh EXCEPT ![found] = EmptyRow(6)]
  ELSE IF found # 0 THEN [sh EXCEPT ![found] = row]
  ELSE Append(sh, row)

\* what the awaited read gives: a result when the call ends with it (the
\* adapter's validation or the read failed, or deleteById found no row)
ReadEnds(method, movement, out) ==
  \/ method # "delete" /\ validateMovement(movement) # {}
  \/ out # "ok"
  \/ method = "delete" /\ findById(sheet, movement.id) = 0

ReadResult(method, movement, out) ==
  IF method # "delete" /\ validateMovement(movement) # {} THEN ValidationFailed(sheet)
  ELSE readSheet(sheet, out)

\* what the awaited write gives
WriteResult(method, found, movement, out) ==
  IF out = "ok" THEN Res(writeFound(sheet, method, found, MovementsToRow(movement)),
                         FALSE, 2, FALSE)
  ELSE IF out = "no_token" THEN [NotAuthenticated(sheet) EXCEPT !.net = 1]
  ELSE IF out = "http_401" THEN [AuthRevoked(sheet) EXCEPT !.net = 2]
  ELSE Res(sheet, TRUE, 2, FALSE)

\* the attempt of the current operation of pass p ended with r: the loop
\* starts the next operation, or assigns state.queue and returns
AttemptEnds(p, op, r) ==
  LET pass == passes[p]
      after == [Attempted(pass, op, r) EXCEPT !.pc = "run", !.found = 0]
  IN /\ sheet' = r.sheet
     /\ authState' = AuthAfter(r)
     /\ IF after.i <= Len(Iterated(pass))
          THEN /\ passes' = [passes EXCEPT ![p] = after]
               /\ UNCHANGED <<state, last>>
          ELSE /\ state' = [state EXCEPT !.queue = after.remainingQueue]
               /\ passes' = [Detach(passes, p) EXCEPT ![p] = IdlePass]
               /\ last' = ProcessQueueResult(after)

ProcessQueueFind(p, out) ==
  /\ passes[p].pc = "run"
  /\ LET pass == passes[p]
         op == Iterated(pass)[pass.i]
         method == ReplayMethod(op.type)
     IN IF ReadEnds(method, op.movement, Seen(out))
          THEN AttemptEnds(p, op, ReadResult(method, op.movement, Seen(out)))
          ELSE /\ passes' = [passes EXCEPT ![p] =
                               [pass EXCEPT !.pc = "write",
                                            !.found = findById(sheet, op.movement.id)]]
               /\ UNCHANGED <<state, sheet, authState, last>>
  /\ UNCHANGED <<now, nextId, calls>>
  /\ AcctUnchanged

ProcessQueueWrite(p, out) ==
  /\ passes[p].pc = "write"
  /\ LET pass == passes[p]
         op == Iterated(pass)[pass.i]
     IN AttemptEnds(p, op, WriteResult(ReplayMethod(op.type), pass.found, op.movement,
                                       Seen(out)))
  /\ UNCHANGED <<now, nextId, calls>>
  /\ AcctUnchanged

UpdateUnchanged ==
  UNCHANGED <<passes, nextId, acct, accountsSheet, assetsSheet, today, loading,
              rateLimiterState, callers, retry, backoff, categoriesSheet>>

\* whether another updateMovement call for the same id is in flight
Overlaps(u, id) ==
  \E v \in UpdateSlots \ {u} :
    inflight[v].pc # "idle" /\ inflight[v].updatedMovement.id = id

\* updateMovement up to its await
UpdateMovementBegin(u, movement) ==
  LET updatedMovement == updateMovementData(state, movement)
  IN /\ inflight[u].pc = "idle"
     /\ Called
     /\ inflight' =
          [v \in UpdateSlots |->
             IF v = u
               THEN [pc |-> "find", updatedMovement |-> updatedMovement, found |-> 0,
                     overlap |-> Overlaps(u, updatedMovement.id)]
             ELSE IF inflight[v].pc # "idle"
                     /\ inflight[v].updatedMovement.id = updatedMovement.id
               THEN [inflight[v] EXCEPT !.overlap = TRUE]
               ELSE inflight[v]]
     /\ UNCHANGED <<state, sheet, now, authState, last>>
     /\ UpdateUnchanged

\* the awaited MovementsAdapter.update of call u ended with r: the try block
\* goes on, or the catch block runs; the call returns updatedMovement
UpdateEnds(u, r) ==
  LET updatedMovement == inflight[u].updatedMovement
  IN /\ sheet' = r.sheet
     /\ authState' = AuthAfter(r)
     /\ state' = IF ~r.threw THEN updateMovement_success(state, updatedMovement)
                 ELSE updateMovement_fallback(state, updatedMovement, now)
     /\ inflight' = [inflight EXCEPT ![u] = IdleUpdate]
     /\ last' = CallOf("updateMovement", FALSE, r.threw, r, updatedMovement) @@
                  [overlap |-> inflight[u].overlap]

UpdateMovementFind(u, out) ==
  /\ inflight[u].pc = "find"
  /\ LET updatedMovement == inflight[u].updatedMovement
     IN IF ReadEnds("update", updatedMovement, Seen(out))
          THEN UpdateEnds(u, ReadResult("update", updatedMovement, Seen(out)))
          ELSE /\ inflight' = [inflight EXCEPT ![u] =
                                 [@ EXCEPT !.pc = "write",
                                           !.found = findById(sheet, updatedMovement.id)]]
               /\ UNCHANGED <<state, sheet, authState, last>>
  /\ UNCHANGED <<now, calls>>
  /\ UpdateUnchanged

UpdateMovementWrite(u, out) ==
  /\ inflight[u].pc = "write"
  /\ UpdateEnds(u, WriteResult("update", inflight[u].found, inflight[u].updatedMovement,
                               Seen(out)))
  /\ UNCHANGED <<now, calls>>
  /\ UpdateUnchanged

(***************************************************************************)
(* The row store client called directly on the Movements sheet.            *)
(***************************************************************************)
StoreIds == {"row-a", "row-b"}

\* a six-cell row with the given id cell and amount cell
StoreRow(id, v) == << S(id), S(Days[1]), N(v), S("cat-exp"), S(""), S("expense") >>

StoreRows == {StoreRow(id, v) : id \in StoreIds, v \in {1, 2}}

\* the record of a client call: its arguments, the sheet it met, what it
\* returned (upsertById: updated; deleteById: the boolean), and whether it
\* repeats the call made just before, which returned
StoreCall(op, id, row, r, result) ==
  CallOf(op, r.threw, FALSE, r, NoMovement) @@
  [id |-> id, row |-> row, before |-> sheet, result |-> result,
   repeat |-> /\ last.op = op
              /\ ~last.threw
              /\ last.id = id
              /\ last.row = row]

UpsertById(id, row, out) ==
  LET r == upsertById(sheet, id, row, Seen(out))
      updated == ~r.threw /\ findById(sheet, id) # 0
  IN /\ Called
     /\ sheet' = r.sheet
     /\ authState' = AuthAfter(r)
     /\ last' = StoreCall("upsertById", id, row, r, updated)
     /\ UNCHANGED <<state, passes, now, nextId>>
     /\ AcctUnchanged

DeleteById(id, columnCount, out) ==
  LET r == deleteById(sheet, id, columnCount, Seen(out))
      returned == ~r.threw /\ findById(sheet, id) # 0
  IN /\ Called
     /\ sheet' = r.sheet
     /\ authState' = AuthAfter(r)
     /\ last' = StoreCall("deleteById", id, <<>>, r, returned)
     /\ UNCHANGED <<state, passes, now, nextId>>
     /\ AcctUnchanged

AppendRows(row, out) ==
  LET r == appendRows(sheet, row, Seen(out))
  IN /\ Called
     /\ sheet' = r.sheet
     /\ authState' = AuthAfter(r)
     /\ last' = StoreCall("appendRows", "", row, r, ~r.threw)
     /\ UNCHANGED <<state, passes, now, nextId>>
     /\ AcctUnchanged

(***************************************************************************)
(* Accounts, balance snapshots (assets) and their adapters.                *)
(***************************************************************************)
Account(id, name, balance) == [id |-> id, name |-> name, emoji |-> "$", balance |-> balance]

Asset(id, dateISO, accountName, value, icon) ==
  [id |-> id, dateISO |-> dateISO, accountName |-> accountName, value |-> value,
   icon |-> icon]

validateAccount(a) ==
  (IF a.id = "" THEN {"Account ID is required"} ELSE {})
  \cup (IF a.name = "" THEN {"Account name is required"} ELSE {})
  \cup (IF a.emoji = "" THEN {"Account emoji is required"} ELSE {})

validateAsset(a) ==
  (IF a.id = "" THEN {"Asset ID is required"} ELSE {})
  \cup (IF ~isValidISODate(a.dateISO) THEN {"Invalid date format"} ELSE {})
  \cup (IF a.accountName = "" THEN {"Account name is required"} ELSE {})

AssetsToRow(item) ==
  << S(item.id), S(item.dateISO), S(item.accountName), N(item.value), S(item.icon) >>

AssetsFromRow(row) ==
  [id |-> CellString(row, 1),
   dateISO |-> CellString(row, 2),
   accountName |-> CellString(row, 3),
   value |-> CellNumber(row, 4),
   icon |-> CellString(row, 5)]

AssetsHeader == << S("id"), S("dateISO"), S("accountName"), S("value"), S("icon") >>

AssetsAdapter_create(sh, item, out) ==
  IF validateAsset(item) # {} THEN ValidationFailed(sh)
  ELSE appendRows(sh, AssetsToRow(item), out)

AssetsAdapter_update(sh, item, out) ==
  IF validateAsset(item) # {} THEN ValidationFailed(sh)
  ELSE upsertById(sh, item.id, AssetsToRow(item), out)

AssetsAdapter_getAll(sh) == [k \in 1..(Len(sh) - 1) |-> AssetsFromRow(sh[k + 1])]

\* AccountsAdapter: as the other adapters, over rows id, name, emoji, balance
AccountsToRow(item) == << S(item.id), S(item.name), S(item.emoji), N(item.balance) >>

AccountsHeader == << S("id"), S("name"), S("emoji"), S("balance") >>

AccountsAdapter_create(sh, item, out) ==
  IF validateAccount(item) # {} THEN ValidationFailed(sh)
  ELSE appendRows(sh, AccountsToRow(item), out)

AccountsAdapter_update(sh, item, out) ==
  IF validateAccount(item) # {} THEN ValidationFailed(sh)
  ELSE upsertById(sh, item.id, AccountsToRow(item), out)

AccountsAdapter_delete(sh, id, out) == deleteById(sh, id, 4, out)

AccountsFromRow(row) ==
  [id |-> CellString(row, 1),
   name |-> CellString(row, 2),
   emoji |-> CellString(row, 3),
   balance |-> CellNumber(row, 4)]

AccountsAdapter_getAll(sh) == [k \in 1..(Len(sh) - 1) |-> AccountsFromRow(sh[k + 1])]

(***************************************************************************)
(* The account service.                                                    *)
(***************************************************************************)
InitialAccountState ==
  [accounts |-> <<>>, assets |-> <<>>, isOnline |-> TRUE, lastSyncTime |-> -1,
   isLoading |-> FALSE, error |-> ""]

\* getTodayISO()
getTodayISO(day) == Days[day]

\* the record of an account-service call whose account write gave r
AccountCall(op, r, hist, acc) ==
  [Call(op, r.threw, r.verr, r.threw /\ r.net > 0, r.net, NoMovement)
     EXCEPT !.hist = hist, !.acc = acc, !.code = r.code]

\* a call that returned, or raised, without an account write
NoWrite(threw) == [Res(<<>>, threw, 0, FALSE) EXCEPT !.code = IF threw THEN "ERROR" ELSE ""]

\* state.accounts.find((a) => a.id === id): its position, 0 when absent
findAccount(st, id) ==
  LET found == {k \in 1..Len(st.accounts) : st.accounts[k].id = id}
  IN IF found = {} THEN 0 ELSE CHOOSE k \in found : \A j \in found : k <= j

\* recordBalanceHistory: the snapshot of (account, today) is updated when the
\* asset cache holds one, created otherwise.  Gives the service state and the
\* Assets sheet afterwards, whether it raised and whether it used a new id.
recordBalanceHistory(st, sh, account, day, newId, out) ==
  LET todayISO == getTodayISO(day)
      found == {k \in 1..Len(st.assets) :
                  st.assets[k].dateISO = todayISO /\ st.assets[k].accountName = account.name}
  IN IF found # {}
       THEN LET existingAsset == st.assets[CHOOSE k \in found : \A j \in found : k <= j]
                updatedAsset == [existingAsset EXCEPT !.value = account.balance,
                                                      !.icon = account.emoji]
                r == AssetsAdapter_update(sh, updatedAsset, out)
            IN IF r.threw
                 THEN [st |-> st, sheet |-> sh, threw |-> TRUE, created |-> FALSE, code |-> r.code]
                 ELSE [st |-> [st EXCEPT !.assets =
                                 [k \in 1..Len(st.assets) |->
                                    IF st.assets[k].id = existingAsset.id
                                      THEN updatedAsset ELSE st.assets[k]]],
                       sheet |-> r.sheet, threw |-> FALSE, created |-> FALSE, code |-> ""]
       ELSE LET asset == Asset(newId, todayISO, account.name, account.balance, account.emoji)
                r == AssetsAdapter_create(sh, asset, out)
            IN IF r.threw
                 THEN [st |-> st, sheet |-> sh, threw |-> TRUE, created |-> FALSE, code |-> r.code]
                 ELSE [st |-> [st EXCEPT !.assets = <<asset>> \o @],
                       sheet |-> r.sheet, threw |-> FALSE, created |-> TRUE, code |-> ""]

\* the catch block of a mutation whose account write failed; the error is rethrown
accountWriteFailed_staysOnline(st) == st

accountWriteFailed(st) == [st EXCEPT !.isOnline = FALSE]

\* the inner catch around recordBalanceHistory: the failure is logged, no more
historyFailed_goesOffline(st) == [st EXCEPT !.isOnline = FALSE]

historyFailed(st) == st

createAccount_success(st, account) ==
  [st EXCEPT !.accounts = Append(@, account), !.isOnline = TRUE]

updateAccount_success(st, account) ==
  [st EXCEPT !.accounts = [k \in 1..Len(@) |-> IF @[k].id = account.id THEN account ELSE @[k]],
             !.isOnline = TRUE]

deleteAccount_success(st, id) ==
  [st EXCEPT !.accounts = SelectSeq(@, LAMBDA a : a.id # id), !.isOnline = TRUE]

MovUnchanged == UNCHANGED <<state, sheet, passes, now, loading, rateLimiterState, callers, retry, backoff, inflight, categoriesSheet>>

CreateAccount(data, out, outH) ==
  LET item == WithId(Uuid(nextId + 1), data)
      r == AccountsAdapter_create(accountsSheet, item, Seen(out))
  IN /\ Called
     /\ accountsSheet' = r.sheet
     /\ IF r.threw
          THEN /\ acct' = accountWriteFailed(acct)
               /\ last' = AccountCall("createAccount", r, "none", item)
               /\ authState' = AuthAfter(r)
               /\ UNCHANGED <<assetsSheet, nextId>>
          ELSE LET h == recordBalanceHistory(createAccount_success(acct, item), assetsSheet,
                                             item, today, Uuid(nextId + 2), Seen(outH))
               IN /\ authState' = AuthAfter(h)
                  /\ acct' = (IF h.threw THEN historyFailed(createAccount_success(acct, item))
                              ELSE h.st)
                  /\ assetsSheet' = h.sheet
                  /\ nextId' = nextId + (IF h.created THEN 2 ELSE 1)
                  /\ last' = AccountCall("createAccount", r,
                                         IF h.threw THEN "failed" ELSE "ok", item)
     /\ UNCHANGED today
     /\ MovUnchanged

\* updateAccountBalance and updateAccount after the cache lookup succeeded
WriteAccount(op, account, recordHistory, out, outH) ==
  LET r == AccountsAdapter_update(accountsSheet, account, Seen(out))
  IN /\ accountsSheet' = r.sheet
     /\ IF r.threw
          THEN /\ acct' = accountWriteFailed(acct)
               /\ last' = AccountCall(op, r, "none", account)
               /\ authState' = AuthAfter(r)
               /\ UNCHANGED <<assetsSheet, nextId>>
          ELSE IF recordHistory
            THEN LET h == recordBalanceHistory(updateAccount_success(acct, account),
                                               assetsSheet, account, today,
                                               Uuid(nextId + 1), Seen(outH))
                 IN /\ authState' = AuthAfter(h)
                    /\ acct' = (IF h.threw
                                  THEN historyFailed(updateAccount_success(acct, account))
                                  ELSE h.st)
                    /\ assetsSheet' = h.sheet
                    /\ nextId' = nextId + (IF h.created THEN 1 ELSE 0)
                    /\ last' = AccountCall(op, r,
                                           IF h.threw THEN "failed" ELSE "ok", account)
            ELSE /\ acct' = updateAccount_success(acct, account)
                 /\ last' = AccountCall(op, r, "none", account)
                 /\ UNCHANGED <<assetsSheet, nextId, authState>>

\* throw new Error('Account not found')
AccountNotFound(op, account) ==
  /\ last' = AccountCall(op, NoWrite(TRUE), "none", account)
  /\ UNCHANGED <<acct, accountsSheet, assetsSheet, nextId, authState>>

UpdateAccountBalance(accountId, newBalance, out, outH) ==
  /\ Called
  /\ LET k == findAccount(acct, accountId)
     IN IF k = 0
          THEN AccountNotFound("updateAccountBalance", Account(accountId, "", newBalance))
          ELSE WriteAccount("updateAccountBalance",
                            [acct.accounts[k] EXCEPT !.balance = newBalance], TRUE, out, outH)
  /\ UNCHANGED today
  /\ MovUnchanged

UpdateAccount(account, out, outH) ==
  /\ Called
  /\ LET k == findAccount(acct, account.id)
     IN IF k = 0
          THEN AccountNotFound("updateAccount", account)
          ELSE WriteAccount("updateAccount", account,
                            acct.accounts[k].balance # account.balance, out, outH)
  /\ UNCHANGED today
  /\ MovUnchanged

DeleteAccount(id, out) ==
  /\ Called
  /\ LET k == findAccount(acct, id)
     IN IF k = 0
          THEN /\ last' = AccountCall("deleteAccount", NoWrite(FALSE), "none",
                                      Account(id, "", 0))
               /\ UNCHANGED <<acct, accountsSheet, authState>>
          ELSE LET r == AccountsAdapter_delete(accountsSheet, id, Seen(out))
               IN /\ accountsSheet' = r.sheet
                  /\ authState' = AuthAfter(r)
                  /\ acct' = (IF r.threw THEN accountWriteFailed(acct)
                              ELSE deleteAccount_success(acct, id))
                  /\ last' = AccountCall("deleteAccount", r, "none",
                                         acct.accounts[k])
  /\ UNCHANGED <<assetsSheet, nextId, today>>
  /\ MovUnchanged

\* loadAccounts up to its await: isLoading = true, error = null
loadAccounts_entry(st) == [st EXCEPT !.isLoading = TRUE, !.error = ""]

\* loadAccounts after a successful read, finally block included
loadAccounts_success(st, accounts, t) ==
  [st EXCEPT !.accounts = nonEmptyIds(accounts), !.lastSyncTime = t,
             !.isOnline = TRUE, !.isLoading = FALSE]

\* loadAccounts after a failed read: the catch block, then the finally block
loadAccounts_failed(st) ==
  [st EXCEPT !.isOnline = FALSE, !.error = "Failed to load accounts", !.isLoading = FALSE]

\* loadAccounts in two steps: up to the awaited read, and from its answer on
LoadAccountsBegin ==
  /\ ~loading.accounts
  /\ calls < MaxCalls
  /\ loading' = [loading EXCEPT !.accounts = TRUE]
  /\ acct' = loadAccounts_entry(acct)
  /\ UNCHANGED <<accountsSheet, assetsSheet, nextId, today, authState, calls, last>>
  /\ UNCHANGED <<state, sheet, passes, now, rateLimiterState, callers, retry, backoff, inflight, categoriesSheet>>

LoadAccountsEnd(out) ==
  /\ loading.accounts
  /\ Called
  /\ loading' = [loading EXCEPT !.accounts = FALSE]
  /\ LET r == readSheet(accountsSheet, Seen(out))
     IN /\ IF ~r.threw
             THEN acct' = loadAccounts_success(acct, AccountsAdapter_getAll(accountsSheet), now)
             ELSE acct' = loadAccounts_failed(acct)
        /\ last' = [AccountCall("loadAccounts", r, "none", NoCall.acc) EXCEPT !.wt = FALSE]
        /\ authState' = AuthAfter(r)
  /\ UNCHANGED <<accountsSheet, assetsSheet, nextId, today>>
  /\ UNCHANGED <<state, sheet, passes, now, rateLimiterState, callers, retry, backoff, inflight, categoriesSheet>>

LoadAssets(out) ==
  /\ Called
  /\ LET r == readSheet(assetsSheet, Seen(out))
     IN /\ IF ~r.threw
             THEN acct' = [acct EXCEPT
                             !.assets = nonEmptyIds(AssetsAdapter_getAll(assetsSheet))]
             ELSE acct' = [acct EXCEPT !.error = "Failed to load assets"]
        /\ last' = [AccountCall("loadAssets", r, "none", NoCall.acc) EXCEPT !.wt = FALSE]
        /\ authState' = AuthAfter(r)
  /\ UNCHANGED <<accountsSheet, assetsSheet, nextId, today>>
  /\ MovUnchanged

ClearAccountState ==
  /\ Called
  /\ acct' = InitialAccountState
  /\ last' = AccountCall("clearAccountState", NoWrite(FALSE), "none", NoCall.acc)
  /\ UNCHANGED <<accountsSheet, assetsSheet, nextId, today, authState>>
  /\ MovUnchanged

\* midnight passes
NextDay ==
  /\ today < MaxDay
  /\ today' = today + 1
  /\ UNCHANGED <<acct, accountsSheet, assetsSheet, nextId, calls, last, authState>>
  /\ MovUnchanged

(***************************************************************************)
(* The store client called directly: every operation checks the session,   *)
(* then each of its requests passes waitForRateLimit and authenticatedFetch.*)
(* A caller is suspended at a timer of the limiter ("ceiling", "delay") or *)
(* at its fetch ("fetch").  The limiter is configured, through             *)
(* configureRateLimit, to 2 requests per minute, 20 seconds apart.         *)
(***************************************************************************)
WindowMs == 60000

RateLimitConfig == [maxRequestsPerMinute |-> 2, requestDelayMs |-> 20000]

\* the operations, and the requests each makes after its first
ClientOps ==
  {"readSheet", "writeRows", "appendRows", "batchWrite", "batchRead", "findById",
   "upsertById", "deleteById"}

FurtherRequests(op) == IF op \in {"upsertById", "deleteById"} THEN 1 ELSE 0

CallerSlots == {1, 2}

\* a caller: where it is suspended, the Date.now() its waitForRateLimit read,
\* the time its timer is set for, whether it waited for the ceiling, and the
\* requests its operation makes after the current one
IdleCaller == [pc |-> "idle", now |-> 0, wake |-> 0, waited |-> FALSE, more |-> 0]

\* what a caller's run up to its next suspension gives: the caller, the
\* limiter's timestamps, and the error code it raised ("" when none)
Ran(c, ts, code) == [c |-> c, ts |-> ts, code |-> code]

\* waitForRateLimit from "Record this request" on, then authenticatedFetch up
\* to its fetch: the token is read after the wait
RecordAndFetch_anyToken(c, ts) == Ran([c EXCEPT !.pc = "fetch"], Append(ts, now), "")

RecordAndFetch(c, ts) ==
  IF getAccessToken = "" THEN Ran(IdleCaller, Append(ts, now), "NOT_AUTHENTICATED")
  ELSE Ran([c EXCEPT !.pc = "fetch"], Append(ts, now), "")

\* the wait that keeps requestDelayMs between requests; c.now is the Date.now()
\* read when waitForRateLimit was entered
spacingWait_none(c, ts) == 0

spacingWait(c, ts) ==
  IF Len(ts) > 0 /\ c.now - ts[Len(ts)] < rateLimiterState.config.requestDelayMs
    THEN rateLimiterState.config.requestDelayMs - (c.now - ts[Len(ts)])
    ELSE 0

\* waitForRateLimit from "Add minimum delay between requests" on
AfterCeiling(c, ts) ==
  IF spacingWait(c, ts) > 0
    THEN Ran([c EXCEPT !.pc = "delay", !.wake = now + spacingWait(c, ts)], ts, "")
    ELSE RecordAndFetch(c, ts)

\* waitForRateLimit from its entry
waitForRateLimit(c, ts0) ==
  LET oneMinuteAgo == now - WindowMs
      ts == SelectSeq(ts0, LAMBDA x : x > oneMinuteAgo)
      waitTime == IF Len(ts) >= rateLimiterState.config.maxRequestsPerMinute
                    THEN ts[1] + WindowMs - now ELSE 0
      entered == [c EXCEPT !.now = now]
  IN IF waitTime > 0
       THEN Ran([entered EXCEPT !.pc = "ceiling", !.wake = now + waitTime, !.waited = TRUE],
                ts, "")
       ELSE AfterCeiling(entered, ts)

StartRequest_unchecked(c, ts) == waitForRateLimit(c, ts)

\* readSheet, writeRows, appendRows, batchWrite, batchRead: the session check,
\* then authenticatedFetch
StartRequest(c, ts) ==
  IF ~isAuthenticated THEN Ran(IdleCaller, ts, "NOT_AUTHENTICATED")
  ELSE waitForRateLimit(c, ts)

\* new SheetsApiError(..., status, code) for a response that is not ok
ErrorCode(status) ==
  IF status = 200 THEN ""
  ELSE IF status = 401 THEN "AUTH_REVOKED"
  ELSE IF status = 404 THEN "NOT_FOUND"
  ELSE IF status = 429 THEN "RATE_LIMITED"
  ELSE "API_ERROR"

HttpStatuses == {200, 401, 429}

\* the record of a client operation that returned or raised
ClientCall(op, status, code) ==
  [Call(op, code # "", FALSE, FALSE, IF status = 0 THEN 0 ELSE 1, NoMovement)
     EXCEPT !.code = code, !.status = status]

\* caller p ran up to its next suspension, or to the end of its operation
Run(p, op, ran, status) ==
  /\ callers' = [callers EXCEPT ![p] = ran.c]
  /\ rateLimiterState' = [rateLimiterState EXCEPT !.requestTimestamps = ran.ts]
  /\ last' = (IF ran.c.pc = "idle" THEN ClientCall(op, status, ran.code) ELSE last)

ClientUnchanged ==
  UNCHANGED <<state, sheet, passes, nextId, acct, accountsSheet, assetsSheet, today, loading, retry, backoff, inflight, categoriesSheet>>

ClientBegin(p, op) ==
  /\ callers[p].pc = "idle"
  /\ Called
  /\ Run(p, op, StartRequest([IdleCaller EXCEPT !.more = FurtherRequests(op)],
                             rateLimiterState.requestTimestamps), 0)
  /\ UNCHANGED <<now, authState>>
  /\ ClientUnchanged

\* a setTimeout of waitForRateLimit fires, at its time or later
TimerFires(p) ==
  /\ callers[p].pc \in {"ceiling", "delay"}
  /\ now >= callers[p].wake
  /\ Run(p, "authenticatedFetch",
         IF callers[p].pc = "ceiling"
           THEN AfterCeiling(callers[p], rateLimiterState.requestTimestamps)
           ELSE RecordAndFetch(callers[p], rateLimiterState.requestTimestamps), 0)
  /\ UNCHANGED <<now, authState, calls>>
  /\ ClientUnchanged

\* the remote answers the request of caller p
Response(p, status) ==
  /\ callers[p].pc = "fetch"
  /\ authState' = (IF status = 401 THEN clearAuthState ELSE authState)
  /\ IF status = 200 /\ callers[p].more > 0
       THEN \* upsertById, deleteById: the read found the row, the write follows
            Run(p, "writeRows",
                StartRequest([IdleCaller EXCEPT !.more = callers[p].more - 1],
                             rateLimiterState.requestTimestamps), 0)
       ELSE /\ callers' = [callers EXCEPT ![p] = IdleCaller]
            /\ last' = ClientCall("authenticatedFetch", status, ErrorCode(status))
            /\ UNCHANGED rateLimiterState
  /\ UNCHANGED <<now, calls>>
  /\ ClientUnchanged

\* time passes: the clock is looked at every 20 seconds
Times == {20000 * k : k \in 1..MaxTicks}

\* with a single caller the clock is looked at every 10 seconds
FineTimes == {10000 * k : k \in 1..(2 * MaxTicks)}

Advance(t) ==
  /\ t > now
  /\ now' = t
  /\ UNCHANGED <<authState, rateLimiterState, callers, calls, last>>
  /\ ClientUnchanged

(***************************************************************************)
(* Retry utilities: exponentialBackoff, withRetry and isRetryableError.    *)
(***************************************************************************)
Min(a, b) == IF a < b THEN a ELSE b
Max(a, b) == IF a > b THEN a ELSE b

\* the cap left out: the delay keeps doubling
exponentialBackoff_uncapped(retryCount, baseDelayMs, maxDelayMs, k) ==
  LET exponentialDelay == baseDelayMs * (2 ^ retryCount)
  IN Max(0, (exponentialDelay * (3 * RandomScale + 2 * k)) \div (4 * RandomScale))

\* k / RandomScale is the value Math.random() returns.  With r = k / RandomScale,
\* cappedDelay + cappedDelay * 0.25 * (r * 2 - 1) is
\* cappedDelay * (3 * RandomScale + 2 * k) / (4 * RandomScale); \div is Math.floor
exponentialBackoff(retryCount, baseDelayMs, maxDelayMs, k) ==
  LET exponentialDelay == baseDelayMs * (2 ^ retryCount)
      cappedDelay == Min(exponentialDelay, maxDelayMs)
  IN Max(0, (cappedDelay * (3 * RandomScale + 2 * k)) \div (4 * RandomScale))

NoBackoff ==
  [retryCount |-> -1, baseDelayMs |-> 0, maxDelayMs |-> 0, random |-> 0, delay |-> 0]

\* <<baseDelayMs, maxDelayMs>>: the defaults and two smaller settings
BackoffSettings == {<<1000, 30000>>, <<100, 1000>>, <<1, 3>>}

RetryUnchanged ==
  UNCHANGED <<state, sheet, passes, now, nextId, acct, accountsSheet, assetsSheet, today,
              authState, loading, rateLimiterState, callers, inflight, categoriesSheet,
              calls, last>>

Backoff(retryCount, baseDelayMs, maxDelayMs, k) ==
  /\ backoff' = [retryCount |-> retryCount, baseDelayMs |-> baseDelayMs,
                 maxDelayMs |-> maxDelayMs, random |-> k,
                 delay |-> exponentialBackoff(retryCount, baseDelayMs, maxDelayMs, k)]
  /\ UNCHANGED retry
  /\ RetryUnchanged

\* the errors an operation handed to withRetry rejects with
NoError == [name |-> "", message |-> "", statusCode |-> 0]
RetryErrors ==
  { [name |-> "TypeError", message |-> "Failed to fetch", statusCode |-> 0],
    [name |-> "TypeError", message |-> "x is not a function", statusCode |-> 0],
    [name |-> "AbortError", message |-> "Aborted", statusCode |-> 0],
    [name |-> "SheetsApiError", message |-> "Rate limit exceeded", statusCode |-> 429],
    [name |-> "SheetsApiError", message |-> "Resource not found", statusCode |-> 404],
    [name |-> "Error", message |-> "Account not found", statusCode |-> 0] }

\* error.message.includes('fetch'), over the messages of RetryErrors
includesFetch(message) == message = "Failed to fetch"

isRetryableError(error) ==
  IF error.name = "TypeError" /\ includesFetch(error.message) THEN TRUE
  ELSE IF error.name = "AbortError" THEN TRUE
  ELSE IF error.statusCode # 0
    THEN error.statusCode \in {408, 429, 500, 502, 503, 504}
    ELSE FALSE

\* the shouldRetry option: left out (() => true) or isRetryableError
RetryPredicates == {"default", "isRetryableError"}
shouldRetry(predicate, error) ==
  IF predicate = "default" THEN TRUE ELSE isRetryableError(error)

\* errors, invocations and waits record what the run did: the error of each
\* failed attempt, the calls of fn and the setTimeout waits
IdleRetry ==
  [pc |-> "idle", maxRetries |-> 3, shouldRetry |-> "default", attempt |-> 0,
   lastError |-> NoError, delayMs |-> 0, raised |-> NoError,
   errors |-> <<>>, invocations |-> 0, waits |-> 0]

\* the test for exhausted attempts left out
catchError_unbounded(r, error, k) ==
  LET r1 == [r EXCEPT !.lastError = error, !.errors = Append(@, error)]
  IN IF ~shouldRetry(r.shouldRetry, error)
       THEN [r1 EXCEPT !.pc = "raised", !.raised = error]
       ELSE [r1 EXCEPT !.pc = "wait", !.waits = @ + 1,
                       !.delayMs = exponentialBackoff(r.attempt, 1000, 30000, k)]

\* the predicate not asked
catchError_ignoresPredicate(r, error, k) ==
  LET r1 == [r EXCEPT !.lastError = error, !.errors = Append(@, error)]
  IN IF r.attempt >= r.maxRetries
       THEN [r1 EXCEPT !.pc = "raised", !.raised = r1.lastError]
       ELSE [r1 EXCEPT !.pc = "wait", !.waits = @ + 1,
                       !.delayMs = exponentialBackoff(r.attempt, 1000, 30000, k)]

\* the catch block of the loop, up to the setTimeout it starts; the break
\* leaves the loop for the final throw lastError
catchError(r, error, k) ==
  LET r1 == [r EXCEPT !.lastError = error, !.errors = Append(@, error)]
  IN IF r.attempt >= r.maxRetries
       THEN [r1 EXCEPT !.pc = "raised", !.raised = r1.lastError]
     ELSE IF ~shouldRetry(r.shouldRetry, error)
       THEN [r1 EXCEPT !.pc = "raised", !.raised = error]
       ELSE [r1 EXCEPT !.pc = "wait", !.waits = @ + 1,
                       !.delayMs = exponentialBackoff(r.attempt, 1000, 30000, k)]

\* withRetry(fn, {maxRetries, shouldRetry}): attempt = 0 and the first fn()
WithRetryBegin(maxRetries, predicate) ==
  /\ retry.pc \in {"idle", "returned", "raised"}
  /\ retry' = [IdleRetry EXCEPT !.pc = "fn", !.maxRetries = maxRetries,
                                !.shouldRetry = predicate, !.invocations = 1]
  /\ UNCHANGED backoff
  /\ RetryUnchanged

\* fn() resolves: return await fn()
FnResolves ==
  /\ retry.pc = "fn"
  /\ retry' = [retry EXCEPT !.pc = "returned"]
  /\ UNCHANGED backoff
  /\ RetryUnchanged

\* fn() rejects with error
FnRejects(error, k) ==
  /\ retry.pc = "fn"
  /\ retry' = catchError(retry, error, k)
  /\ UNCHANGED backoff
  /\ RetryUnchanged

\* the setTimeout fires: attempt++ and the next fn()
RetryTimer ==
  /\ retry.pc = "wait"
  /\ retry' = [retry EXCEPT !.pc = "fn", !.attempt = @ + 1, !.delayMs = 0,
                            !.invocations = @ + 1]
  /\ UNCHANGED backoff
  /\ RetryUnchanged

(***************************************************************************)
(* The adapters called directly: create, update and upsert of the          *)
(* Movements, Categories and Assets adapters, and fromRow(toRow(e)).       *)
(***************************************************************************)
\* the record of an adapter call
AdapterCall(adapter, method, item, r) ==
  CallOf("adapter", r.threw, FALSE, r, NoMovement) @@
  [adapter |-> adapter, method |-> method, item |-> item]

AdapterMethods == {"create", "update", "upsert"}

\* create gives the entity a generated id, update and upsert take it as it is
Identified(method, data) ==
  IF method = "create" THEN WithId(Uuid(nextId + 1), data) ELSE data

MovementsAdapterCall(method, data, out) ==
  LET item == Identified(method, data)
      r == IF method = "create" THEN MovementsAdapter_create(sheet, item, Seen(out))
           ELSE IF method = "update" THEN MovementsAdapter_update(sheet, item, Seen(out))
           ELSE MovementsAdapter_upsert(sheet, item, Seen(out))
  IN /\ Called
     /\ sheet' = r.sheet
     /\ nextId' = IF method = "create" THEN nextId + 1 ELSE nextId
     /\ authState' = AuthAfter(r)
     /\ last' = AdapterCall("Movements", method, item, r)
     /\ UNCHANGED <<state, passes, now>>
     /\ AcctUnchanged

CategoriesAdapterCall(method, data, out) ==
  LET item == Identified(method, data)
      r == IF method = "create" THEN CategoriesAdapter_create(categoriesSheet, item, Seen(out))
           ELSE IF method = "update"
             THEN CategoriesAdapter_update(categoriesSheet, item, Seen(out))
             ELSE CategoriesAdapter_upsert(categoriesSheet, item, Seen(out))
  IN /\ Called
     /\ categoriesSheet' = r.sheet
     /\ nextId' = IF method = "create" THEN nextId + 1 ELSE nextId
     /\ authState' = AuthAfter(r)
     /\ last' = AdapterCall("Categories", method, item, r)
     /\ UNCHANGED <<state, sheet, passes, now, acct, accountsSheet, assetsSheet, today,
                    loading, rateLimiterState, callers, retry, backoff, inflight>>

AssetsAdapterCall(method, data, out) ==
  LET item == Identified(method, data)
      r == IF method = "create" THEN AssetsAdapter_create(assetsSheet, item, Seen(out))
           ELSE AssetsAdapter_update(assetsSheet, item, Seen(out))
  IN /\ Called
     /\ assetsSheet' = r.sheet
     /\ nextId' = IF method = "create" THEN nextId + 1 ELSE nextId
     /\ authState' = AuthAfter(r)
     /\ last' = AdapterCall("Assets", method, item, r)
     /\ UNCHANGED <<state, sheet, passes, now, acct, accountsSheet, today,
                    loading, rateLimiterState, callers, retry, backoff, inflight,
                    categoriesSheet>>

\* the entities handed to the adapter calls: a well-formed one, and ones
\* that break one rule each
AdapterMovements ==
  { Mov("m-1", Days[1], 10, "cat-exp", "expense"),
    Mov("m-1", Days[1], 0, "cat-exp", "expense"),
    Mov("m-1", Days[1], -1, "cat-exp", "expense"),
    Mov("m-1", BadDate, 10, "cat-exp", "expense") }

Orange == <<"#", "F", "F", "5", "7", "3", "3">>
Red == <<"r", "e", "d">>

AdapterCategories ==
  { [id |-> "c-1", name |-> "Food", color |-> Orange, typeFixed |-> "expense"],
    [id |-> "c-1", name |-> "Food", color |-> Red, typeFixed |-> "expense"],
    [id |-> "c-1", name |-> " ", color |-> Orange, typeFixed |-> "expense"] }

AdapterAssets ==
  { Asset("a-1", Days[1], "Bank", 100, "$"),
    Asset("a-1", Days[1], " ", 100, "$") }

\* fromRow(toRow(e)) of an entity that passes the validation of its adapter
\* (ChartsBase has none)
RoundTrip(adapter, e) ==
  /\ last' = Call("roundTrip", FALSE, FALSE, FALSE, 0, NoMovement) @@
       [adapter |-> adapter, item |-> e,
        back |-> IF adapter = "Movements" THEN MovementsFromRow(MovementsToRow(e))
                 ELSE IF adapter = "Categories" THEN CategoriesFromRow(CategoriesToRow(e))
                 ELSE IF adapter = "Assets" THEN AssetsFromRow(AssetsToRow(e))
                 ELSE ChartsBaseFromRow(ChartsBaseToRow(e))]
  /\ UNCHANGED <<state, sheet, passes, now, nextId, authState, calls>>
  /\ AcctUnchanged

\* the entities of each kind, well-formed and not
Movements ==
  { [Mov(id, d, amount, c, t) EXCEPT !.description = text] :
      id \in {"m-1"}, d \in {Days[1], Days[2], Days[3], BadDate}, amount \in {-1, 0, 10, 25},
      c \in {"cat-inc", "cat-exp"}, text \in {"", "lunch"}, t \in {"income", "expense", ""} }

Categories ==
  { [id |-> "c-1", name |-> name, color |-> color, typeFixed |-> typeFixed] :
      name \in {"Food", " "}, color \in {Black, Orange, Red},
      typeFixed \in {"income", "expense", "both", ""} }

Assets ==
  { Asset("a-1", d, accountName, value, icon) :
      d \in {Days[1], BadDate}, accountName \in {"Bank", ""}, value \in {-5, 0, 100},
      icon \in {"", "$"} }

ChartsBases ==
  { [id |-> "ch-1", period |-> period, startDateISO |-> Days[1], endDateISO |-> Days[2],
     totalIncome |-> income, totalExpense |-> expense, netBalance |-> income - expense,
     categoryBreakdown |-> breakdown] :
      period \in {"daily", "weekly", "monthly", "yearly"}, income \in {0, 10},
      expense \in {0, 25}, breakdown \in {"{}", "{\"cat-exp\":25}"} }

(***************************************************************************)
(* The initial state: nothing loaded, empty sheets.                        *)
(***************************************************************************)
Init ==
  /\ state = InitialMovementState
  /\ sheet = <<MovementsHeader>>
  /\ passes = [p \in PassSlots |-> IdlePass]
  /\ now = 0
  /\ nextId = 0
  /\ acct = InitialAccountState
  /\ accountsSheet = <<AccountsHeader>>
  /\ assetsSheet = <<AssetsHeader>>
  /\ today = 1
  /\ authState = SignedIn
  /\ loading = [movements |-> FALSE, accounts |-> FALSE]
  /\ rateLimiterState = [requestTimestamps |-> <<>>, config |-> RateLimitConfig]
  /\ callers = [p \in CallerSlots |-> IdleCaller]
  /\ retry = IdleRetry
  /\ backoff = NoBackoff
  /\ inflight = [u \in UpdateSlots |-> IdleUpdate]
  /\ categoriesSheet = InitialCategoriesSheet
  /\ calls = 0
  /\ last = NoCall

(***************************************************************************)
(* Movement service, calls made one after the other: createMovement,       *)
(* updateMovement, deleteMovement and processQueue (and loadCategories),   *)
(* each returning before the next is made.                                 *)
(***************************************************************************)
Mutation ==
  \/ \E data \in CreateInputs, out \in {"ok", "fail_write"}, t \in ClockReads :
       CreateMovement(data, out, t)
  \/ \E id \in CachedIds, fields \in UpdateInputs, out \in Outcomes :
       UpdateMovement(WithId(id, fields), out)
  \/ \E id \in CachedIds \cup {GhostId}, out \in Outcomes : DeleteMovement(id, out)

NextSeq ==
  \/ AllIdle /\ \E out \in {"ok", "fail_read"} : LoadCategories(out)
  \/ AllIdle /\ Mutation
  \/ AllIdle /\ ProcessQueueBegin(1)
  \/ \E out \in Outcomes : ProcessQueueStep(1, out)

SpecSeq == Init /\ [][NextSeq]_vars

(***************************************************************************)
(* Movement service, calls overlapping a processQueue in flight, with      *)
(* loadMovements and clearMovementState.                                   *)
(***************************************************************************)
NextConc ==
  \/ \E out \in {"ok", "fail_read"} : LoadCategories(out)
  \/ \E out \in {"ok", "fail_read"} : LoadMovements(out)
  \/ Mutation
  \/ ClearMovementState
  \/ ProcessQueueBegin(1)
  \/ \E out \in Outcomes : ProcessQueueStep(1, out)

SpecConc == Init /\ [][NextConc]_vars

(***************************************************************************)
(* Account service, calls made one after the other.                        *)
(***************************************************************************)
AccountInputs == { Account("", "Cash", 5), Account("", "Cash", 7), Account("", "", 5) }

Balances == {5, 7}

CachedAccountIds == {acct.accounts[k].id : k \in 1..Len(acct.accounts)}

NextAcct ==
  \/ \E data \in AccountInputs, out \in {"ok", "fail_write"}, outH \in Outcomes :
       CreateAccount(data, out, outH)
  \/ \E id \in CachedAccountIds \cup {GhostId}, b \in Balances, out \in Outcomes,
        outH \in Outcomes :
       UpdateAccountBalance(id, b, out, outH)
  \/ \E id \in CachedAccountIds \cup {GhostId}, data \in AccountInputs, out \in Outcomes,
        outH \in Outcomes :
       UpdateAccount(WithId(id, data), out, outH)
  \/ \E id \in CachedAccountIds \cup {GhostId}, out \in Outcomes : DeleteAccount(id, out)
  \/ \E out \in {"ok", "fail_read"} : LoadAssets(out)
  \/ ClearAccountState
  \/ NextDay

SpecAcct == Init /\ [][NextAcct]_vars

(***************************************************************************)
(* Movement mutations against a remote that may answer HTTP 401, with the  *)
(* session ending (logout) and being restored (setAuthState).              *)
(***************************************************************************)
AuthOutcomes == {"ok", "fail_write", "http_401"}

\* setAuthState({ accessToken })
setAuthState ==
  /\ authState.accessToken = ""
  /\ authState' = SignedIn
  /\ UNCHANGED <<state, sheet, passes, now, nextId, calls, last>>
  /\ AcctUnchanged

\* logout: clearAuthState()
Logout ==
  /\ authState.accessToken # ""
  /\ authState' = clearAuthState
  /\ UNCHANGED <<state, sheet, passes, now, nextId, calls, last>>
  /\ AcctUnchanged

NextAuth ==
  \/ \E data \in CreateInputs, out \in AuthOutcomes : CreateMovement(data, out, now)
  \/ \E id \in CachedIds, data \in UpdateInputs, out \in AuthOutcomes :
       UpdateMovement(WithId(id, data), out)
  \/ \E id \in CachedIds, out \in AuthOutcomes : DeleteMovement(id, out)
  \/ setAuthState
  \/ Logout

SpecAuth == Init /\ [][NextAuth]_vars

(***************************************************************************)
(* loadMovements and loadAccounts, in flight while entities are created.   *)
(***************************************************************************)
LoadOutcomes == {"ok", "fail_read"}

NextLoad ==
  \/ LoadMovementsBegin
  \/ \E out \in LoadOutcomes : LoadMovementsEnd(out)
  \/ LoadAccountsBegin
  \/ \E out \in LoadOutcomes : LoadAccountsEnd(out)
  \/ \E out \in {"ok", "fail_write"} :
       CreateMovement(Mov("", Days[1], 10, "cat-inc", ""), out, now)
  \/ CreateAccount(Account("", "Cash", 5), "ok", "ok")

SpecLoad == Init /\ [][NextLoad]_vars

(***************************************************************************)
(* The store client with two callers, and with one.                        *)
(***************************************************************************)
NextClient ==
  \/ \E p \in CallerSlots, op \in ClientOps : ClientBegin(p, op)
  \/ \E p \in CallerSlots : TimerFires(p)
  \/ \E p \in CallerSlots, status \in HttpStatuses : Response(p, status)
  \/ \E t \in Times : Advance(t)
  \/ setAuthState

SpecClient == Init /\ [][NextClient]_vars

NextClientSeq ==
  \/ \E op \in ClientOps : ClientBegin(1, op)
  \/ TimerFires(1)
  \/ \E status \in HttpStatuses : Response(1, status)
  \/ \E t \in FineTimes : Advance(t)
  \/ setAuthState

SpecClientSeq == Init /\ [][NextClientSeq]_vars

(***************************************************************************)
(* withRetry around an operation that resolves or rejects, and with the    *)
(* operation settling and the timers firing; exponentialBackoff alone.     *)
(***************************************************************************)
FnSettles ==
  FnResolves \/ \E error \in RetryErrors, k \in 0..(RandomScale - 1) : FnRejects(error, k)

NextRetry ==
  \/ \E maxRetries \in 0..MaxRetries, predicate \in RetryPredicates :
       WithRetryBegin(maxRetries, predicate)
  \/ FnResolves
  \/ \E error \in RetryErrors, k \in 0..(RandomScale - 1) : FnRejects(error, k)
  \/ RetryTimer

SpecRetry == Init /\ [][NextRetry]_vars

SpecRetryFair == Init /\ [][NextRetry]_vars /\ WF_vars(FnSettles) /\ WF_vars(RetryTimer)

NextBackoff ==
  \E retryCount \in 0..MaxRetryCount, setting \in BackoffSettings, k \in 0..(RandomScale - 1) :
    Backoff(retryCount, setting[1], setting[2], k)

SpecBackoff == Init /\ [][NextBackoff]_vars

(***************************************************************************)
(* The row store client called directly.                                   *)
(***************************************************************************)
NextStore ==
  \/ \E id \in StoreIds, row \in StoreRows, out \in Outcomes : UpsertById(id, row, out)
  \/ \E id \in StoreIds, columnCount \in {6, 10}, out \in Outcomes :
       DeleteById(id, columnCount, out)
  \/ \E row \in StoreRows, out \in {"ok", "fail_write"} : AppendRows(row, out)

SpecStore == Init /\ [][NextStore]_vars

(***************************************************************************)
(* The adapters called directly.                                           *)
(***************************************************************************)
NextAdapters ==
  \/ \E method \in AdapterMethods, data \in AdapterMovements, out \in {"ok", "fail_write"} :
       MovementsAdapterCall(method, data, out)
  \/ \E method \in AdapterMethods, data \in AdapterCategories, out \in {"ok", "fail_write"} :
       CategoriesAdapterCall(method, data, out)
  \/ \E method \in AdapterMethods, data \in AdapterAssets, out \in {"ok", "fail_write"} :
       AssetsAdapterCall(method, data, out)

SpecAdapters == Init /\ [][NextAdapters]_vars

NextRoundTrip ==
  \/ \E e \in Movements : validateMovement(e) = {} /\ RoundTrip("Movements", e)
  \/ \E e \in Categories : validateCategory(e) = {} /\ RoundTrip("Categories", e)
  \/ \E e \in Assets : validateAsset(e) = {} /\ RoundTrip("Assets", e)
  \/ \E e \in ChartsBases : RoundTrip("ChartsBase", e)

SpecRoundTrip == Init /\ [][NextRoundTrip]_vars

(***************************************************************************)
(* Movement service, calls made one after the other, with movements that   *)
(* pass validateMovement, of amount zero and above, and loadMovements.     *)
(***************************************************************************)
AmountInputs ==
  { Mov("", Days[1], 0, "cat-exp", "expense"),
    Mov("", Days[1], 10, "cat-exp", "expense") }

NextAmounts ==
  \/ AllIdle /\ \E out \in {"ok", "fail_read"} : LoadMovements(out)
  \/ AllIdle /\ \E data \in AmountInputs, out \in {"ok", "fail_write"}, t \in ClockReads :
                  CreateMovement(data, out, t)
  \/ AllIdle /\ \E id \in CachedIds, fields \in AmountInputs, out \in Outcomes :
                  UpdateMovement(WithId(id, fields), out)
  \/ AllIdle /\ ProcessQueueBegin(1)
  \/ \E out \in Outcomes : ProcessQueueStep(1, out)

SpecAmounts == Init /\ [][NextAmounts]_vars

(***************************************************************************)
(* Movement service, calls overlapping request by request: two             *)
(* processQueue calls and two updateMovement calls in flight, creates,     *)
(* and deleteById called on the sheet.                                     *)
(***************************************************************************)
RaceCreates == { Mov("", Days[1], 10, "cat-exp", "expense") }

RaceUpdates ==
  { Mov("", Days[1], 20, "cat-exp", "expense"),
    Mov("", Days[1], 30, "cat-exp", "expense") }

\* the ids of the rows of the sheet that are not cleared
SheetIds == {sheet[k][1][2] : k \in 2..Len(sheet)} \ {""}

NextRace ==
  \/ \E data \in RaceCreates, out \in {"ok", "fail_write"}, t \in ClockReads :
       CreateMovement(data, out, t)
  \/ \E u \in UpdateSlots, id \in CachedIds, fields \in RaceUpdates :
       UpdateMovementBegin(u, WithId(id, fields))
  \/ \E u \in UpdateSlots, out \in {"ok", "fail_read"} : UpdateMovementFind(u, out)
  \/ \E u \in UpdateSlots, out \in {"ok", "fail_write"} : UpdateMovementWrite(u, out)
  \/ \E p \in PassSlots : ProcessQueueBegin(p)
  \/ \E p \in PassSlots, out \in {"ok", "fail_read"} : ProcessQueueFind(p, out)
  \/ \E p \in PassSlots, out \in {"ok", "fail_write"} : ProcessQueueWrite(p, out)
  \/ \E id \in SheetIds \cup {GhostId} : DeleteById(id, 6, "ok")

SpecRace == Init /\ [][NextRace]_vars

(***************************************************************************)
(* Properties.                                                             *)
(***************************************************************************)
\* the step is a service call returning (or raising) within the step
CallStep == calls' = calls + 1

LogOps(log) == [k \in 1..Len(log) |-> log[k].op]

FailedOps(log) == LogOps(SelectSeq(log, LAMBDA e : e.threw))

\* C1: when the write-through attempt of createMovement, updateMovement or
\* deleteMovement fails, the call returns without raising, exactly one operation
\* of the matching kind is appended to the queue, isOnline becomes false and the
\* cache shows the intended mutation; a failed create returns a 'temp-' id.
C1_FallbackQueues ==
  [][ (CallStep /\ last'.wt) =>
        /\ last'.op \in {"createMovement", "updateMovement", "deleteMovement"}
        /\ ~last'.threw
        /\ ~state'.isOnline
        /\ Len(state'.queue) = Len(state.queue) + 1
        /\ SubSeq(state'.queue, 1, Len(state.queue)) = state.queue
        /\ LET queued == state'.queue[Len(state'.queue)]
               ret == last'.ret
           IN /\ queued.movement = ret
              /\ last'.op = "createMovement" =>
                   /\ queued.type = "create"
                   /\ IsTempId(ret.id)
                   /\ state'.movements = <<ret>> \o state.movements
              /\ last'.op = "updateMovement" =>
                   /\ queued.type = "update"
                   /\ Len(state'.movements) = Len(state.movements)
                   /\ \E k \in 1..Len(state'.movements) : state'.movements[k] = ret
                   /\ \A k \in 1..Len(state.movements) :
                        state'.movements[k] =
                          IF state.movements[k].id = ret.id THEN ret ELSE state.movements[k]
              /\ last'.op = "deleteMovement" =>
                   /\ queued.type = "delete"
                   /\ \E k \in 1..Len(state.movements) : state.movements[k] = ret
                   /\ \A k \in 1..Len(state'.movements) : state'.movements[k].id # ret.id
                   /\ state'.movements = SelectSeq(state.movements, LAMBDA m : m.id # ret.id)
    ]_vars

\* a create whose append the store refused has just fallen back to the queue
C1_Witness ==
  /\ last.op = "createMovement" /\ last.wt /\ last.io /\ ~last.verr
  /\ IsTempId(last.ret.id)
  /\ Len(state.queue) = 2
  /\ state.queue[2] = [type |-> "create", movement |-> last.ret]

\* C2: a createMovement or updateMovement whose entity fails the adapter's
\* validation raises to the caller, issues no network request, and leaves the
\* queue and the cache as they were.
C2_ValidationNeverQueued ==
  [][ (CallStep /\ last'.verr) =>
        /\ last'.threw
        /\ ~last'.io
        /\ state'.queue = state.queue
        /\ state'.movements = state.movements
    ]_vars

\* the movements of the remote sheet: its rows below the header that are not cleared
RemoteMovements ==
  {MovementsFromRow(sheet[k]) : k \in {j \in 2..Len(sheet) : sheet[j] # EmptyRow(6)}}

CachedMovements == {state.movements[k] : k \in 1..Len(state.movements)}

\* C3: calls made one after the other, starting with the cache equal to the
\* remote sheet: whenever the queue is empty, the cache holds exactly the
\* non-cleared rows of the remote sheet, field for field.
C3_EmptyQueueMeansInSync ==
  (AllIdle /\ state.queue = <<>>) => CachedMovements = RemoteMovements

\* C4: a processQueue pass attempts the queued operations one at a time in
\* enqueue order, create by upsert, update by update, delete by delete; when it
\* ends the queue holds exactly the operations whose attempt failed, in order.
C4_ReplayInOrder ==
  /\ \A p \in PassSlots : passes[p].pc = "run" =>
       /\ passes[p].i = Len(passes[p].log) + 1
       /\ LogOps(passes[p].log) = SubSeq(passes[p].initial, 1, Len(passes[p].log))
       /\ state.queue = passes[p].initial
  /\ last.op = "processQueue" =>
       /\ LogOps(last.log) = last.initial
       /\ \A k \in 1..Len(last.log) :
            last.log[k].method =
              (CASE last.log[k].op.type = "create" -> "upsert"
                 [] last.log[k].op.type = "update" -> "update"
                 [] last.log[k].op.type = "delete" -> "delete")
       /\ state.queue = FailedOps(last.log)
       /\ last.success + last.failed = Len(last.initial)
       /\ last.failed = Len(state.queue)

\* a pass over two operations has ended: the first failed, the second succeeded
C4_Witness ==
  /\ last.op = "processQueue"
  /\ Len(last.log) = 2
  /\ last.log[1].threw /\ ~last.log[2].threw
  /\ state.queue = <<last.initial[1]>>

\* C5: when the store accepts every request made during a processQueue pass
\* over n operations, the pass returns { success: n, failed: 0 } and the queue
\* is empty afterwards.
C5_AcceptingStoreDrainsQueue ==
  (last.op = "processQueue"
     /\ \A k \in 1..Len(last.log) : last.log[k].threw => ~last.log[k].io)
  => /\ last.success = Len(last.initial)
     /\ last.failed = 0
     /\ state.queue = <<>>

\* C6: after clearMovementState (as at the start) the queue is empty, and an
\* empty queue stays empty until a mutation fails, also when a processQueue
\* pass was in flight at the clear.
C6_ClearedQueueStaysEmpty ==
  [][ /\ (CallStep /\ last'.op = "clearMovementState") => state'.queue = <<>>
      /\ (state.queue = <<>> /\ ~(CallStep /\ last'.wt)) => state'.queue = <<>>
    ]_vars

\* the fixed type of the cached category a movement refers to, "" when none
CachedTypeFixed(categoryId) ==
  LET found == {k \in 1..Len(state.categories) : state.categories[k].id = categoryId}
  IN IF found = {} THEN "" ELSE state.categories[CHOOSE k \in found : TRUE].typeFixed

\* C7: createMovement and updateMovement referencing a cached category return
\* and cache a movement of type income when the category is income, and
\* expense when it is expense or both, whatever type the caller gave.
C7_TypeFromCategory ==
  (last.op \in {"createMovement", "updateMovement"}
     /\ CachedTypeFixed(last.ret.categoryId) # "")
  => /\ last.ret.type =
          (IF CachedTypeFixed(last.ret.categoryId) = "income" THEN "income" ELSE "expense")
     /\ \A k \in 1..Len(state.movements) :
          state.movements[k].id = last.ret.id => state.movements[k].type = last.ret.type

AccountMutations ==
  {"createAccount", "updateAccountBalance", "updateAccount", "deleteAccount"}

\* an account mutation whose write to the remote Accounts sheet failed
AccountWriteFailedStep == CallStep /\ last'.op \in AccountMutations /\ last'.wt

\* the account cache shows the change the last account mutation intended
AccountChangeApplied ==
  IF last.op = "deleteAccount"
    THEN \A k \in 1..Len(acct.accounts) : acct.accounts[k].id # last.acc.id
    ELSE \E k \in 1..Len(acct.accounts) : acct.accounts[k] = last.acc

C9_HistoryFailureSwallowed ==
  (last.op \in AccountMutations /\ last.hist = "failed")
  => /\ ~last.threw
     /\ acct.isOnline
     /\ \E k \in 1..Len(acct.accounts) : acct.accounts[k] = last.acc

\* a balance update went through and its snapshot write failed
C9_Witness ==
  /\ last.op = "updateAccountBalance"
  /\ last.hist = "failed"
  /\ ~last.threw
  /\ \E k \in 1..Len(acct.accounts) : acct.accounts[k] = last.acc

\* the non-cleared rows of the remote Assets sheet
RemoteAssets == nonEmptyIds(AssetsAdapter_getAll(assetsSheet))

OnePerAccountAndDate(assets) ==
  \A j, k \in 1..Len(assets) :
    (assets[j].accountName = assets[k].accountName /\ assets[j].dateISO = assets[k].dateISO)
    => j = k

\* C10: the remote Assets sheet and the asset cache each hold at most one
\* balance snapshot per account name and date.
C10_OneSnapshotPerAccountAndDate ==
  OnePerAccountAndDate(RemoteAssets) /\ OnePerAccountAndDate(acct.assets)

MovementMutations == {"createMovement", "updateMovement", "deleteMovement"}

\* C13: a createMovement whose append request is answered with a transient
\* error (HTTP 429) is queued only after that request was retried, that is
\* after more than the one network request a create makes.
C13_TransientRetriedBeforeQueue ==
  [][ (CallStep /\ last'.op = "createMovement" /\ last'.wt /\ last'.code = "RATE_LIMITED")
      => last'.net > 1 ]_vars

\* C14: a movement mutation whose write-through fails with an
\* authentication-required or authentication-revoked error sets isOnline to
\* false and leaves the queue as it was.
C14_AuthFailureNotQueued ==
  [][ (CallStep /\ last'.op \in MovementMutations
         /\ last'.code \in {"NOT_AUTHENTICATED", "AUTH_REVOKED"})
      => ~state'.isOnline /\ state'.queue = state.queue ]_vars

\* C20: when loadMovements or loadAccounts fails the error is raised, the
\* cached entities and the queue are as they were when the read answered,
\* isOnline is false and isLoading is false again.
C20_FailedLoadKeepsCache ==
  [][ /\ (CallStep /\ last'.op = "loadMovements" /\ last'.threw)
         => /\ state'.movements = state.movements
            /\ state'.categories = state.categories
            /\ state'.queue = state.queue
            /\ ~state'.isOnline
            /\ state.isLoading /\ ~state'.isLoading
      /\ (CallStep /\ last'.op = "loadAccounts" /\ last'.threw)
         => /\ acct'.accounts = acct.accounts
            /\ acct'.assets = acct.assets
            /\ ~acct'.isOnline
            /\ acct.isLoading /\ ~acct'.isLoading
    ]_vars

\* both loads failed over a cache and a queue that hold something
C20_Witness ==
  /\ last.op = "loadAccounts" /\ last.threw
  /\ ~acct.isOnline /\ ~acct.isLoading /\ acct.accounts # <<>>
  /\ ~state.isOnline /\ ~state.isLoading /\ state.error = "Failed to load movements"
  /\ state.movements # <<>> /\ state.queue # <<>>

\* C11: every trailing 60-second interval that ends at a recorded timestamp
\* holds at most maxRequestsPerMinute recorded timestamps, also with two
\* callers in the limiter at once.
C11_WindowCeiling ==
  LET ts == rateLimiterState.requestTimestamps
  IN \A j \in 1..Len(ts) :
       Cardinality({i \in 1..Len(ts) : ts[i] > ts[j] - WindowMs /\ ts[i] <= ts[j]})
         <= rateLimiterState.config.maxRequestsPerMinute

\* C12: with one caller at a time, consecutive recorded timestamps are at
\* least requestDelayMs apart, also after a wait for the per-minute ceiling.
C12_MinimumSpacing ==
  LET ts == rateLimiterState.requestTimestamps
  IN \A i \in 1..(Len(ts) - 1) :
       ts[i + 1] - ts[i] >= rateLimiterState.config.requestDelayMs

\* a request recorded after its caller waited for the ceiling
C12_Witness ==
  /\ callers[1].pc = "fetch"
  /\ callers[1].waited
  /\ Len(rateLimiterState.requestTimestamps) >= 2

\* C18: an operation of the store client started while getAccessToken() is
\* null raises NOT_AUTHENTICATED at once: no request is issued, no caller
\* gets into the limiter or to a fetch.
C18_NoTokenFailsFast ==
  [][ (CallStep /\ getAccessToken = "")
      => /\ last'.op \in ClientOps
         /\ last'.threw
         /\ last'.code = "NOT_AUTHENTICATED"
         /\ last'.net = 0
         /\ callers' = callers
    ]_vars

\* a by-id operation refused after the session was lost
C18_Witness ==
  /\ authState.accessToken = ""
  /\ last.op = "upsertById"
  /\ last.code = "NOT_AUTHENTICATED"

\* C19: a request answered with HTTP 401 clears the auth state and raises
\* AUTH_REVOKED; while no token is stored no caller issues a request, the
\* callers waiting in the rate limiter included.
C19_RevokedStopsRequests ==
  [][ \A p \in CallerSlots :
        /\ (callers[p].pc = "fetch" /\ callers'[p].pc = "idle" /\ last'.status = 401)
           => /\ authState' = clearAuthState
              /\ last'.threw
              /\ last'.code = "AUTH_REVOKED"
        /\ (authState.accessToken = "" /\ authState'.accessToken = "")
           => ~(callers[p].pc # "fetch" /\ callers'[p].pc = "fetch")
    ]_vars

\* a caller that was waiting in the limiter when the token was revoked
C19_Witness ==
  /\ authState.accessToken = ""
  /\ last.op = "authenticatedFetch"
  /\ last.code = "NOT_AUTHENTICATED"
  /\ rateLimiterState.requestTimestamps # <<>>

(***************************************************************************)
(* Retry utilities.                                                        *)
(***************************************************************************)
RetryRunning == retry.pc \in {"fn", "wait"}
RetryFinished == retry.pc \in {"returned", "raised"}

\* C15: withRetry with maxRetries = n calls the operation at most n + 1
\* times, a run that has started finishes, and a run that raises after only
\* failed attempts raises the error of the last attempt.
C15_RetryTerminates ==
  /\ [](retry.invocations <= retry.maxRetries + 1)
  /\ [](retry.pc = "raised" =>
          /\ Len(retry.errors) = retry.invocations
          /\ retry.raised = retry.errors[Len(retry.errors)])
  /\ RetryRunning ~> RetryFinished

\* all four attempts of a run with maxRetries = 3 failed, the last with an
\* error other than the first
C15_Witness ==
  /\ retry.pc = "raised"
  /\ retry.maxRetries = 3
  /\ retry.invocations = 4
  /\ retry.raised = retry.errors[4]
  /\ retry.errors[4] # retry.errors[1]

\* C16: when an attempt fails with an error the shouldRetry predicate
\* rejects, withRetry raises that error in the same step, starts no wait and
\* never calls the operation again; on the first attempt the operation has
\* then been called exactly once, whatever maxRetries is.
C16_RejectedPropagates ==
  [][/\ (/\ retry.pc = "fn"
         /\ retry'.pc \in {"wait", "raised"}
         /\ ~shouldRetry(retry.shouldRetry, retry'.errors[Len(retry'.errors)]))
        => /\ retry'.pc = "raised"
           /\ retry'.raised = retry'.errors[Len(retry'.errors)]
           /\ retry'.waits = retry.waits
           /\ retry'.invocations = retry.invocations
           /\ (retry.attempt = 0 => retry'.invocations = 1 /\ retry'.waits = 0)
     /\ retry.pc = "raised" => (retry'.invocations = retry.invocations \/ retry'.errors = <<>>)
    ]_vars

\* a 404 on the first attempt of a run with maxRetries = 3 and
\* isRetryableError: raised after one call and no wait
C16_Witness ==
  /\ retry.pc = "raised"
  /\ retry.shouldRetry = "isRetryableError"
  /\ retry.maxRetries = 3
  /\ retry.raised.statusCode = 404
  /\ retry.invocations = 1
  /\ retry.waits = 0

\* c of the defaults (base 1000, max 30000) for retryCount 0 to 6
DefaultCapped == <<1000, 2000, 4000, 8000, 16000, 30000, 30000>>

\* C17: for retryCount >= 0 exponentialBackoff returns a non-negative
\* integer between 75% and 125% (each rounded down) of
\* c = min(baseDelay * 2^retryCount, maxDelay); with the defaults c is
\* 1000, 2000, 4000, 8000, 16000, 30000, 30000 for retryCount 0 to 6; c does
\* not decrease from one retryCount to the next and is at most maxDelay.
C17_BackoffWithinJitter ==
  backoff.retryCount >= 0 =>
    LET c == Min(backoff.baseDelayMs * (2 ^ backoff.retryCount), backoff.maxDelayMs)
        before == Min(backoff.baseDelayMs * (2 ^ (backoff.retryCount - 1)),
                      backoff.maxDelayMs)
    IN /\ backoff.delay \in Nat
       /\ (3 * c) \div 4 <= backoff.delay
       /\ backoff.delay <= (5 * c) \div 4
       /\ c <= backoff.maxDelayMs
       /\ backoff.retryCount > 0 => before <= c
       /\ (/\ backoff.baseDelayMs = 1000
           /\ backoff.maxDelayMs = 30000
           /\ backoff.retryCount <= 6)
          => c = DefaultCapped[backoff.retryCount + 1]

\* the sixth retry with the defaults and a jitter above the cap
C17_Witness ==
  /\ backoff.retryCount = 6
  /\ backoff.baseDelayMs = 1000
  /\ backoff.maxDelayMs = 30000
  /\ backoff.delay > 30000

(***************************************************************************)
(* The row store client and the adapters.                                  *)
(***************************************************************************)
\* the call just made is an upsertById that returned and repeats the
\* upsertById made just before it
UpsertRepeated == last.op = "upsertById" /\ ~last.threw /\ last.repeat

\* C21 as stated: for any sheet, id and row, the second of two successive
\* upsertById(id, row) calls leaves the sheet as the first left it, reports
\* updated = true and keeps the row count.
C21_UpsertIdempotent ==
  UpsertRepeated =>
    /\ sheet = last.before
    /\ last.result
    /\ Len(sheet) = Len(last.before)

\* C21, for a row that carries the id in its id cell: the second of two
\* successive upsertById(id, row) calls leaves the sheet as the first left
\* it, reports updated = true and keeps the row count.
C21_UpsertIdempotentOwnId ==
  (UpsertRepeated /\ last.row[1] = S(last.id)) => C21_UpsertIdempotent

\* the second call met the row and left a sheet of more than the header
C21_Witness ==
  /\ UpsertRepeated
  /\ last.row[1] = S(last.id)
  /\ last.result
  /\ sheet = last.before
  /\ Len(sheet) > 1

\* the invariants of the data model an entity breaks: a transaction has
\* amount > 0, a category a non-blank name and a color of '#' and six hex
\* digits
ViolatesInvariants(adapter, item) ==
  IF adapter = "Movements" THEN item.amount <= 0 \/ ~isValidISODate(item.dateISO)
  ELSE IF adapter = "Categories" THEN isBlank(item.name) \/ ~isValidHexColor(item.color)
  ELSE isBlank(item.accountName)

\* C23: an adapter create, update or upsert of an entity that violates its
\* invariants raises a validation error and issues no request to the store.
C23_InvalidNeverReachesStore ==
  (last.op = "adapter" /\ ViolatesInvariants(last.adapter, last.item)) =>
    /\ last.threw
    /\ last.verr
    /\ last.net = 0

\* C24: for the Movements, Categories, Assets and ChartsBase adapters and
\* every entity that passes the adapter's validation, fromRow(toRow(e)) is e.
C24_RoundTrip == last.op = "roundTrip" => last.back = last.item

\* a transaction of amount 0 and empty description went through toRow and
\* fromRow
C24_Witness ==
  /\ last.op = "roundTrip"
  /\ last.adapter = "Movements"
  /\ last.item.amount = 0
  /\ last.item.description = ""
  /\ last.back = last.item

(***************************************************************************)
(* Identifiers, concurrent calls and the queue.                            *)
(***************************************************************************)
\* C25: the movements in the cache have pairwise distinct identifiers, the
\* temporary identifiers of creates that fell back to the queue included.
C25_CachedIdsDistinct ==
  \A i, j \in 1..Len(state.movements) :
    i # j => state.movements[i].id # state.movements[j].id

\* C28: every movement written to the remote sheet or left in the cache by
\* createMovement or updateMovement has amount > 0.
C28_AmountPositive ==
  /\ \A m \in CachedMovements : m.amount > 0
  /\ \A m \in RemoteMovements : m.amount > 0

\* C29: a loadMovements that succeeds leaves in the cache every cached
\* movement whose create operation is still in the queue.
C29_LoadKeepsQueuedCreates ==
  [][(CallStep /\ last'.op = "loadMovements" /\ ~last'.threw) =>
       \A k \in 1..Len(state.queue) :
         (state.queue[k].type = "create" /\ state.queue[k].movement.id \in CachedIds)
           => \E j \in 1..Len(state'.movements) :
                state'.movements[j].id = state.queue[k].movement.id
    ]_vars

\* C30: the remote Movements sheet never holds two rows, neither of them
\* cleared, with the same identifier.
C30_RemoteIdsDistinct ==
  \A i, j \in 2..Len(sheet) :
    (i # j /\ sheet[i][1] # S("")) => sheet[i][1] # sheet[j][1]

\* C22: deleteById of an id present below the header returns true, writes
\* empty strings over the cells of that row only, keeps the number of rows
\* and every other row, and findById for that id then finds nothing; for an
\* absent id it returns false and writes nothing.
C22_DeleteClearsOnlyThatRow ==
  [][(CallStep /\ last'.op = "deleteById" /\ ~last'.threw /\ last'.before = sheet) =>
       LET pos == findById(sheet, last'.id)
       IN IF pos # 0
            THEN /\ last'.result
                 /\ Len(sheet') = Len(sheet)
                 /\ \A k \in 1..Len(sheet) : k # pos => sheet'[k] = sheet[k]
                 /\ \A c \in 1..Len(sheet'[pos]) : sheet'[pos][c] = S("")
                 /\ findById(sheet', last'.id) = 0
            ELSE /\ ~last'.result
                 /\ sheet' = sheet
    ]_vars

\* no updateMovement call is in flight
UpdatesReturned == \A u \in UpdateSlots : inflight[u].pc = "idle"

\* C26: when two updateMovement calls for the same cached id were in flight
\* together and both have returned, the cache entry of that id is the value
\* of the call whose write-through attempt ended last, whether the attempts
\* succeeded or fell back to the queue.
C26_LastCompletedWins ==
  (UpdatesReturned /\ last.op = "updateMovement" /\ last.overlap) =>
    \A k \in 1..Len(state.movements) :
      state.movements[k].id = last.ret.id => state.movements[k] = last.ret

\* the attempt that ended last succeeded, the other call fell back to the
\* queue with another value, and the cache holds the value of the last
C26_Witness ==
  /\ UpdatesReturned
  /\ last.op = "updateMovement"
  /\ last.overlap
  /\ ~last.wt
  /\ \E k \in 1..Len(state.movements) : state.movements[k] = last.ret
  /\ \E k \in 1..Len(state.queue) :
       /\ state.queue[k].type = "update"
       /\ state.queue[k].movement.id = last.ret.id
       /\ state.queue[k].movement # last.ret

\* how often op is in the queue q, and how often a log has it replayed
\* with success
Count(q, op) == Cardinality({k \in 1..Len(q) : q[k] = op})
Succeeded(log, op) == Cardinality({k \in 1..Len(log) : log[k].op = op /\ ~log[k].threw})

\* a processQueue call returns in this step
PassReturns ==
  \E p \in PassSlots : passes[p].pc # "idle" /\ passes'[p].pc = "idle"

\* C27: a queued operation leaves the queue only in the step in which a
\* processQueue call that replayed it with success returns (or the state is
\* cleared), and in that step it does leave: the returning call takes out
\* of the queue the operations it replayed with success and no others.
C27_LeavesOnlyWhenReplayed ==
  [][\A op \in {state.queue[k] : k \in 1..Len(state.queue)}
                 \cup {state'.queue[k] : k \in 1..Len(state'.queue)} :
       IF CallStep /\ last'.op = "clearMovementState" THEN TRUE
       ELSE IF PassReturns
         THEN LET left == Count(state.queue, op) - Succeeded(last'.log, op)
              IN Count(state'.queue, op) = (IF left > 0 THEN left ELSE 0)
         ELSE Count(state'.queue, op) >= Count(state.queue, op)
    ]_vars

====
